---- MODULE Spec2Model ----
(***************************************************************************)
(* Model of the mediastack CLI: the deploy / stop / restart / pull         *)
(* commands, the filesystem provisioner (package stack) and the container  *)
(* runtime facade (package docker).                                        *)
(*                                                                         *)
(* Paths are sequences of components, so filepath.Join is concatenation    *)
(* and filepath.Dir drops the last component.  Permission modes are the    *)
(* octal literals of the source, kept as strings.                          *)
(***************************************************************************)
EXTENDS Integers, Sequences, FiniteSets, TLC

VARIABLES
    cmd,        \* the subcommand being run
    flags,      \* its flags (global --dry-run/--verbose and per-command ones)
    cfg,        \* the loaded config.Config (ProjectName, folders, PUID:PGID)
    umask,      \* process umask, applied by the OS to every create
    pc,         \* position inside the running handler
    result,     \* "none" while running, then "ok" (nil) or "err"
    errOp,      \* the call whose failure the handler returned, or "none"
    events,     \* deploy phase events: start / ok / fail / warn per step
    fs,         \* the filesystem: path -> [kind, mode, owner, content]
    acts,       \* the items acted on with mutating filesystem calls, in order
    report,     \* intended actions printed by the provisioner under dry-run
    rt,         \* the container runtime: containers, volumes, networks, images
    calls,      \* runtime invocations issued (compose CLI and management API)
    containers, \* runDeploy's local: the list returned by ListContainers
    stopIdx,    \* index of the next element of containers in the stop loop
    verify,     \* outcome of step 8: [listed, running, failed]
    args,       \* the service names given on the command line
    osEnv,      \* what the operating system refuses (see the provisioner)
    failures,   \* number of runtime calls that have failed in this run
    parser      \* ParseEnvFile at work: [phase, lines, i, env, key, cur,
                \* environ]

vars == <<cmd, flags, cfg, umask, pc, result, errOp, events, fs, acts, report,
          rt, calls, containers, stopIdx, verify, args, osEnv, failures,
          parser>>

----------------------------------------------------------------------------
(* Bounds of the model *)

\* number of containers known to the runtime when the command starts
MaxContainers == 2

\* number of manifest sources that may be present in the config directory
MaxSources == 2

\* number of services named on the command line of stop / restart / pull
MaxArgs == 2

\* number of services of the stack definition
MaxServices == 2

\* number of flags given a value other than their default
MaxFlags == 2

\* number of runtime calls that fail in one run
MaxFailures == 2

----------------------------------------------------------------------------
(* package stack: catalogs and manifest *)

DataDirectories == <<
    <<"authentik", "certs">>, <<"authentik", "media">>,
    <<"authentik", "templates">>, <<"bazarr">>, <<"chromium">>,
    <<"crowdsec", "data">>, <<"ddns-updater">>, <<"filebot">>, <<"gluetun">>,
    <<"grafana">>, <<"headplane", "data">>, <<"headscale", "data">>,
    <<"heimdall">>, <<"homarr", "configs">>, <<"homarr", "data">>,
    <<"homarr", "icons">>, <<"homepage">>, <<"huntarr">>, <<"jellyfin">>,
    <<"jellyseerr">>, <<"lidarr">>, <<"logs", "unpackerr">>,
    <<"logs", "traefik">>, <<"mylar">>, <<"plex">>, <<"portainer">>,
    <<"postgresql">>, <<"prometheus">>, <<"prowlarr">>, <<"qbittorrent">>,
    <<"radarr">>, <<"readarr">>, <<"sabnzbd">>, <<"sonarr">>, <<"tailscale">>,
    <<"tdarr", "server">>, <<"tdarr", "configs">>, <<"tdarr", "logs">>,
    <<"tdarr-node">>, <<"traefik", "letsencrypt">>, <<"traefik-certs-dumper">>,
    <<"unpackerr">>, <<"valkey">>, <<"whisparr">> >>

MediaDirectories == <<
    <<"media", "anime">>, <<"media", "audio">>, <<"media", "books">>,
    <<"media", "comics">>, <<"media", "movies">>, <<"media", "music">>,
    <<"media", "photos">>, <<"media", "tv">>, <<"media", "xxx">>,
    <<"usenet", "anime">>, <<"usenet", "audio">>, <<"usenet", "books">>,
    <<"usenet", "comics">>, <<"usenet", "complete">>, <<"usenet", "console">>,
    <<"usenet", "incomplete">>, <<"usenet", "movies">>, <<"usenet", "music">>,
    <<"usenet", "prowlarr">>, <<"usenet", "software">>, <<"usenet", "tv">>,
    <<"usenet", "xxx">>,
    <<"torrents", "anime">>, <<"torrents", "audio">>, <<"torrents", "books">>,
    <<"torrents", "comics">>, <<"torrents", "complete">>,
    <<"torrents", "console">>, <<"torrents", "incomplete">>,
    <<"torrents", "movies">>, <<"torrents", "music">>,
    <<"torrents", "prowlarr">>, <<"torrents", "software">>,
    <<"torrents", "tv">>, <<"torrents", "xxx">>,
    <<"watch">>, <<"filebot", "input">>, <<"filebot", "output">> >>

ConfigFiles == <<
    [Source |-> "headplane-config.yaml",
     Destination |-> <<"headplane", "config.yaml">>, Permission |-> "0664"],
    [Source |-> "headscale-config.yaml",
     Destination |-> <<"headscale", "config.yaml">>, Permission |-> "0664"],
    [Source |-> "traefik-static.yaml",
     Destination |-> <<"traefik", "traefik.yaml">>, Permission |-> "0664"],
    [Source |-> "traefik-dynamic.yaml",
     Destination |-> <<"traefik", "dynamic.yaml">>, Permission |-> "0664"],
    [Source |-> "traefik-internal.yaml",
     Destination |-> <<"traefik", "internal.yaml">>, Permission |-> "0664"],
    [Source |-> "crowdsec-acquis.yaml",
     Destination |-> <<"crowdsec", "acquis.yaml">>, Permission |-> "0664"] >>

SpecialFiles == <<
    [Path |-> <<"traefik", "letsencrypt", "acme.json">>,
     Permission |-> "0600", Create |-> TRUE] >>

----------------------------------------------------------------------------
(* The filesystem *)

Absent == [kind |-> "none", mode |-> "", owner |-> "", content |-> ""]

Stat(f, p) == IF p \in DOMAIN f THEN f[p] ELSE Absent

Exists(f, p) == Stat(f, p).kind # "none"

\* f with path p bound to entry e
Put(f, p, e) == (p :> e) @@ f

\* filepath.Dir
Dir(p) == SubSeq(p, 1, Len(p) - 1)

\* the mode a create call ends with: the requested bits minus the umask bits
Masked(perm, um) ==
    IF um = "022"
    THEN CASE perm = "0775" -> "0755"
           [] perm = "0755" -> "0755"
           [] perm = "0664" -> "0644"
           [] perm = "0666" -> "0644"
           [] OTHER -> perm
    ELSE perm

\* the identity the process runs as, and so the owner of what it creates
ProcessOwner == "root"

\* cfg.PUID:cfg.PGID, as one owner value
OwnerOf(c) == c.PUID

\* MkdirAll refusing a path that already exists, as os.Mkdir does
MkdirAllExclusive(f, p, perm, um, fail) ==
    IF fail \/ \E k \in 1..Len(p) : Stat(f, SubSeq(p, 1, k)).kind = "file"
            \/ Stat(f, p).kind = "dir"
    THEN [fs |-> f, err |-> TRUE]
    ELSE LET new == {SubSeq(p, 1, k) : k \in 1..Len(p)} \ DOMAIN f
             d   == [kind |-> "dir", mode |-> Masked(perm, um),
                     owner |-> ProcessOwner, content |-> ""]
         IN  [fs |-> [q \in new |-> d] @@ f, err |-> FALSE]

\* os.MkdirAll: nil when p is already a directory, an error when a
\* component of p is a file, otherwise every missing ancestor and p itself
\* are created with perm (minus umask).  The result is [fs, err].
MkdirAll(f, p, perm, um, fail) ==
    IF Stat(f, p).kind = "dir" THEN [fs |-> f, err |-> FALSE]
    ELSE IF fail \/ \E k \in 1..Len(p) : Stat(f, SubSeq(p, 1, k)).kind = "file"
    THEN [fs |-> f, err |-> TRUE]
    ELSE LET new == {SubSeq(p, 1, k) : k \in 1..Len(p)} \ DOMAIN f
             d   == [kind |-> "dir", mode |-> Masked(perm, um),
                     owner |-> ProcessOwner, content |-> ""]
         IN  [fs |-> [q \in new |-> d] @@ f, err |-> FALSE]

Chown(f, p, o) == Put(f, p, [f[p] EXCEPT !.owner = o])

Chmod(f, p, m) == Put(f, p, [f[p] EXCEPT !.mode = m])

----------------------------------------------------------------------------
(* package stack: the provisioner.                                         *)
(* A provisioner state is [fs, acts, report, err, named]: the filesystem,  *)
(* the items the operation has acted on with mutating calls so far, the    *)
(* dry-run lines printed so far, whether the operation has returned an     *)
(* error, and the path that error names.  An item is a directory of a      *)
(* catalog ("dir"), a manifest destination ("copy"), a special file        *)
(* ("special"), a matched config file ("config") or a tree handed to       *)
(* SetPermissions ("tree").  An environment e says which calls the         *)
(* operating system refuses: e.mkdirFail and e.openFail are sets of paths, *)
(* e.chownOk and e.chmodOk are booleans.                                   *)

Line(item, p) == [item |-> item, path |-> p]

\* TryChown where a failure is returned
TryChownFatal(st, p, c, e) ==
    IF e.chownOk /\ Exists(st.fs, p)
    THEN [st EXCEPT !.fs = Chown(st.fs, p, OwnerOf(c))]
    ELSE [st EXCEPT !.err = TRUE, !.named = p]

\* os.Chown inside the provisioner: a failure is printed and ignored
TryChown(st, p, c, e) ==
    [st EXCEPT !.fs = IF e.chownOk /\ Exists(st.fs, p)
                      THEN Chown(st.fs, p, OwnerOf(c)) ELSE @]

\* createDir with the dry-run return removed
createDirNoDryRun(st, path, c, um, verbose, dryRun, e) ==
    LET m == MkdirAll(st.fs, path, "0775", um, path \in e.mkdirFail)
        s1 == [st EXCEPT !.acts = Append(@, Line("dir", path))]
    IN  IF m.err THEN [s1 EXCEPT !.err = TRUE]
        ELSE LET s2 == TryChown([s1 EXCEPT !.fs = m.fs], path, c, e)
             IN  [s2 EXCEPT !.fs = IF e.chmodOk
                                   THEN Chmod(s2.fs, path, "02775") ELSE @]

\* createDir where a failed MkdirAll is ignored
createDirMkdirWarn(st, path, c, um, verbose, dryRun, e) ==
    IF dryRun
    THEN [st EXCEPT !.report = IF verbose
                                THEN Append(@, Line("dir", path)) ELSE @]
    ELSE LET m == MkdirAll(st.fs, path, "0775", um, path \in e.mkdirFail)
             s1 == [st EXCEPT !.acts = Append(@, Line("dir", path))]
         IN  IF m.err THEN s1
             ELSE LET s2 == TryChown([s1 EXCEPT !.fs = m.fs], path, c, e)
                  IN  [s2 EXCEPT !.fs = IF e.chmodOk
                                        THEN Chmod(s2.fs, path, "02775")
                                        ELSE @]

\* createDir: MkdirAll 0775 (fatal), Chown and Chmod 02775 (warnings)
createDir(st, path, c, um, verbose, dryRun, e) ==
    IF dryRun
    THEN [st EXCEPT !.report = IF verbose
                                THEN Append(@, Line("dir", path)) ELSE @]
    ELSE LET m == MkdirAll(st.fs, path, "0775", um, path \in e.mkdirFail)
             s1 == [st EXCEPT !.acts = Append(@, Line("dir", path))]
         IN  IF m.err THEN [s1 EXCEPT !.err = TRUE]
             ELSE LET s2 == TryChown([s1 EXCEPT !.fs = m.fs], path, c, e)
                  IN  [s2 EXCEPT !.fs = IF e.chmodOk
                                        THEN Chmod(s2.fs, path, "02775")
                                        ELSE @]

\* the loop over one catalog, stopping at the first error, which is
\* wrapped with the catalog path
RECURSIVE CreateCatalog(_, _, _, _, _, _, _, _, _)
CreateCatalog(st, root, dirs, i, c, um, verbose, dryRun, e) ==
    IF st.err \/ i > Len(dirs) THEN st
    ELSE LET k == createDir(st, root \o dirs[i], c, um, verbose, dryRun, e)
         IN  CreateCatalog(IF k.err THEN [k EXCEPT !.named = dirs[i]] ELSE k,
                           root, dirs, i + 1, c, um, verbose, dryRun, e)

CreateDirectories(st, c, um, verbose, dryRun, e) ==
    LET d == CreateCatalog(st, c.DataFolder, DataDirectories, 1,
                           c, um, verbose, dryRun, e)
    IN  IF d.err THEN d
        ELSE CreateCatalog(d, c.MediaFolder, MediaDirectories, 1,
                           c, um, verbose, dryRun, e)

\* copyFile: open the source, MkdirAll the destination directory, open the
\* destination with O_WRONLY|O_CREATE|O_TRUNC and perm, copy the bytes
copyFile(st, src, dst, perm, um, e) ==
    IF Stat(st.fs, src).kind # "file" THEN [st EXCEPT !.err = TRUE]
    ELSE LET m  == MkdirAll(st.fs, Dir(dst), "0755", um, Dir(dst) \in e.mkdirFail)
             s1 == [st EXCEPT !.acts = Append(@, Line("copy", dst))]
         IN  IF m.err THEN [s1 EXCEPT !.err = TRUE]
             ELSE LET old == Stat(m.fs, dst)
                  IN  IF dst \in e.openFail \/ old.kind = "dir"
                      THEN [s1 EXCEPT !.fs = m.fs, !.err = TRUE]
                      ELSE [s1 EXCEPT !.fs = Put(m.fs, dst,
                              IF old.kind = "file"
                              THEN [old EXCEPT !.content = m.fs[src].content]
                              ELSE [kind |-> "file", mode |-> Masked(perm, um),
                                    owner |-> ProcessOwner,
                                    content |-> m.fs[src].content])]

\* CopyEntry where a missing source is an error
CopyEntryMissingFatal(st, i, c, um, verbose, dryRun, e) ==
    LET cf  == ConfigFiles[i]
        src == c.ConfigDir \o <<cf.Source>>
        dst == c.DataFolder \o cf.Destination
    IN  IF dryRun
        THEN [st EXCEPT !.report =
                IF verbose THEN Append(@, Line("copy", dst)) ELSE @]
        ELSE LET k == copyFile(st, src, dst, cf.Permission, um, e)
             IN  IF k.err THEN [k EXCEPT !.named = <<cf.Source>>]
                 ELSE TryChown(k, dst, c, e)

\* one pass of the manifest loop of CopyConfigFiles: the dry-run line, the
\* skip of a missing source, the copy (fatal) and the chown (warning)
CopyEntry(st, i, c, um, verbose, dryRun, e) ==
    LET cf  == ConfigFiles[i]
        src == c.ConfigDir \o <<cf.Source>>
        dst == c.DataFolder \o cf.Destination
    IN  IF dryRun
        THEN [st EXCEPT !.report =
                IF verbose THEN Append(@, Line("copy", dst)) ELSE @]
        ELSE IF ~Exists(st.fs, src) THEN st
        ELSE LET k == copyFile(st, src, dst, cf.Permission, um, e)
             IN  IF k.err THEN [k EXCEPT !.named = <<cf.Source>>]
                 ELSE TryChown(k, dst, c, e)

\* the manifest loop of CopyConfigFiles
RECURSIVE CopyManifest(_, _, _, _, _, _, _)
CopyManifest(st, i, c, um, verbose, dryRun, e) ==
    IF st.err \/ i > Len(ConfigFiles) THEN st
    ELSE CopyManifest(CopyEntry(st, i, c, um, verbose, dryRun, e),
                      i + 1, c, um, verbose, dryRun, e)

\* the special-file loop of CopyConfigFiles
RECURSIVE HandleSpecial(_, _, _, _, _, _, _)
HandleSpecial(st, i, c, um, verbose, dryRun, e) ==
    IF st.err \/ i > Len(SpecialFiles) THEN st
    ELSE LET sf   == SpecialFiles[i]
             full == c.DataFolder \o sf.Path
             s0   == [st EXCEPT !.acts = Append(@, Line("special", full))]
             mk   == IF sf.Create /\ ~Exists(st.fs, full)
                     THEN LET m == MkdirAll(st.fs, Dir(full), "0755", um,
                                            Dir(full) \in e.mkdirFail)
                          IN  IF m.err
                              THEN [s0 EXCEPT !.err = TRUE, !.named = sf.Path]
                              ELSE IF full \in e.openFail
                              THEN [s0 EXCEPT !.fs = m.fs, !.err = TRUE,
                                              !.named = sf.Path]
                              ELSE [s0 EXCEPT !.fs = Put(m.fs, full,
                                        [kind |-> "file",
                                         mode |-> Masked("0666", um),
                                         owner |-> ProcessOwner,
                                         content |-> ""])]
                     ELSE s0
             ch   == IF mk.err THEN mk
                     ELSE IF ~e.chmodOk \/ ~Exists(mk.fs, full)
                     THEN [mk EXCEPT !.err = TRUE, !.named = sf.Path]
                     ELSE TryChown([mk EXCEPT !.fs =
                                      Chmod(mk.fs, full, sf.Permission)],
                                   full, c, e)
             nx   == IF dryRun
                     THEN [st EXCEPT !.report =
                            IF verbose THEN Append(@, Line("special", full))
                            ELSE @]
                     ELSE ch
         IN  HandleSpecial(nx, i + 1, c, um, verbose, dryRun, e)

CopyConfigFiles(st, c, um, verbose, dryRun, e) ==
    LET m == CopyManifest(st, 1, c, um, verbose, dryRun, e)
    IN  IF m.err THEN m ELSE HandleSpecial(m, 1, c, um, verbose, dryRun, e)

\* the names a config directory may hold, in the sorted order Glob returns
ConfigDirNames == <<".env", "crowdsec-acquis.yaml", "headplane-config.yaml",
                    "headscale-config.yaml", "restart.sh",
                    "traefik-dynamic.yaml", "traefik-internal.yaml",
                    "traefik-static.yaml">>

\* filepath.Ext of those names
Ext(n) == CASE n = ".env" -> ".env"
            [] n = "restart.sh" -> ".sh"
            [] OTHER -> ".yaml"

\* filepath.Match of a pattern of SetConfigPermissions against a name
Match(pattern, n) == CASE pattern = "*.yaml" -> Ext(n) = ".yaml"
                       [] pattern = "*.yml" -> Ext(n) = ".yml"
                       [] pattern = ".env" -> n = ".env"
                       [] pattern = "*.sh" -> Ext(n) = ".sh"

\* filepath.Glob(filepath.Join(dir, pattern)): the existing matches, sorted
Glob(f, dir, pattern) ==
    LET hit(n) == Match(pattern, n) /\ Exists(f, dir \o <<n>>)
    IN  SelectSeq(ConfigDirNames, hit)

Patterns == <<"*.yaml", "*.yml", ".env", "*.sh">>

\* the loop over the matches of one pattern
RECURSIVE PermMatches(_, _, _, _, _, _, _)
PermMatches(st, ms, j, c, verbose, dryRun, e) ==
    IF j > Len(ms) THEN st
    ELSE LET match == c.ConfigDir \o <<ms[j]>>
             perm  == IF Ext(ms[j]) = ".sh" THEN "0775" ELSE "0664"
             nx == IF dryRun
                   THEN [st EXCEPT !.report =
                           IF verbose THEN Append(@, Line("config", match))
                           ELSE @]
                   ELSE TryChown(
                          [st EXCEPT
                             !.acts = Append(@, Line("config", match)),
                             !.fs = IF e.chmodOk
                                    THEN Chmod(st.fs, match, perm) ELSE @],
                          match, c, e)
         IN  PermMatches(nx, ms, j + 1, c, verbose, dryRun, e)

\* the loop over the patterns; the operation always returns nil
RECURSIVE PermPatterns(_, _, _, _, _, _)
PermPatterns(st, i, c, verbose, dryRun, e) ==
    IF i > Len(Patterns) THEN st
    ELSE PermPatterns(
           PermMatches(st, Glob(st.fs, c.ConfigDir, Patterns[i]), 1,
                       c, verbose, dryRun, e),
           i + 1, c, verbose, dryRun, e)

SetConfigPermissions(st, c, verbose, dryRun, e) ==
    PermPatterns(st, 1, c, verbose, dryRun, e)

\* whether q is root or lies below it
Under(root, q) == Len(q) >= Len(root) /\ SubSeq(q, 1, Len(root)) = root

\* filepath.Walk with the callback of SetPermissions: every entry of the
\* tree gets Chown and Chmod (02775 for a directory, 0664 for a file),
\* each failure being a warning
WalkPerm(f, root, c, e) ==
    [q \in DOMAIN f |->
        IF Under(root, q)
        THEN [f[q] EXCEPT
                !.owner = IF e.chownOk THEN OwnerOf(c) ELSE @,
                !.mode  = IF ~e.chmodOk THEN @
                          ELSE IF f[q].kind = "dir" THEN "02775" ELSE "0664"]
        ELSE f[q]]

\* SetPermissions: the loop over the paths; a path that cannot be walked
\* is the one error, wrapped with that path
RECURSIVE SetPermissions(_, _, _, _, _, _, _)
SetPermissions(st, paths, i, c, verbose, dryRun, e) ==
    IF st.err \/ i > Len(paths) THEN st
    ELSE LET path == paths[i]
             nx == IF dryRun
                   THEN [st EXCEPT !.report =
                           IF verbose THEN Append(@, Line("tree", path))
                           ELSE @]
                   ELSE IF ~Exists(st.fs, path)
                   THEN [st EXCEPT !.err = TRUE, !.named = path]
                   ELSE [st EXCEPT !.acts = Append(@, Line("tree", path)),
                                   !.fs = WalkPerm(st.fs, path, c, e)]
         IN  SetPermissions(nx, paths, i + 1, c, verbose, dryRun, e)

----------------------------------------------------------------------------
(* package config: the part of Load that reaches the commands *)

NoValue == "<unset>"

\* the parser of the environment file before it is called
NoParser == [phase |-> "idle"]

\* getEnvDefault with the default dropped
getEnvDefaultNoDefault(val, defaultVal) == IF val # NoValue THEN val ELSE ""

\* getEnvDefault: the value when the key is present and non-empty
getEnvDefault(val, defaultVal) ==
    IF val # NoValue /\ val # "" THEN val ELSE defaultVal

\* Load, for the fields the commands use; project is the value of
\* COMPOSE_PROJECT_NAME in the environment file
Load(project) ==
    [ConfigDir   |-> <<"cfg">>,
     DataFolder  |-> <<"data">>,
     MediaFolder |-> <<"media">>,
     PUID        |-> "puid",
     ProjectName |-> getEnvDefault(project, "mediastack")]

----------------------------------------------------------------------------
(* The container runtime.                                                  *)
(* A container is [id, project, service, state]; id is [short, rest]: the  *)
(* first twelve characters of the identifier and the remainder.  project   *)
(* is the value of its com.docker.compose.project label.  Volumes,         *)
(* networks and images are named by the project that created them and are  *)
(* in use while a container of that project exists.                        *)

Services == [i \in 1..MaxServices |-> i]

\* the project labels present on the host
Projects == {"mediastack", "homelab"}

InUse(r, p) == \E c \in r.containers : c.project = p

\* whether a resource of project p passes a label filter ("" is no filter)
Passes(label, p) == label = "" \/ p = label

\* the daemon's answer to a container list: the containers passing the
\* filters, newest first
RECURSIVE NewestFirst(_)
NewestFirst(cs) ==
    IF cs = {} THEN <<>>
    ELSE LET c == CHOOSE x \in cs : \A y \in cs : y.id.rest <= x.id.rest
         IN  <<c>> \o NewestFirst(cs \ {c})

ContainerList(r, all, label) ==
    NewestFirst({c \in r.containers :
                    /\ all \/ c.state = "running"
                    /\ Passes(label, c.project)})

\* the daemon's answers to ContainerInspect, kept with the container: the
\* request fails ("error"), the container has no health-check (State.Health
\* is nil, written ""), or State.Health.Status, which the daemon keeps
\* after the container has stopped
InspectAnswers == {"error", "", "healthy", "unhealthy"}

\* ListContainers inspecting every container of the list
InspectedAlways(cont) == TRUE

\* ListContainers: `if cont.State == "running"`, the containers it inspects
Inspected(cont) == cont.state = "running"

\* ListContainers, the health of an entry: set only from an inspect that
\* succeeded and reported a health state
HealthOf(cont) ==
    IF Inspected(cont) /\ cont.inspect \notin {"error", ""}
    THEN cont.inspect ELSE ""

\* ListContainers, one entry of the result
ContainerInfo(cont) ==
    [ID |-> cont.id.short, Name |-> cont.id, State |-> cont.state,
     Health |-> HealthOf(cont)]

\* ListContainers, the ContainerInspect requests of one call, in order
Inspections(cs) == SelectSeq(cs, Inspected)

\* Client.ListContainers without the project label filter
ListContainersUnfiltered(projectName, r, all) ==
    LET cs == ContainerList(r, all, "")
    IN  [i \in 1..Len(cs) |-> ContainerInfo(cs[i])]

\* Client.ListContainers: the label filter is added when projectName is
\* not empty; ID is the twelve-character prefix of the identifier
ListContainers(projectName, r, all) ==
    LET label == IF projectName # "" THEN projectName ELSE ""
        cs    == ContainerList(r, all, label)
    IN  [i \in 1..Len(cs) |-> ContainerInfo(cs[i])]

\* the daemon resolving an identifier prefix: a unique match or none
Resolve(r, short) == {c \in r.containers : c.id.short = short}

\* Client.StopContainer: [rt, err]; the daemon refuses an ambiguous or
\* unknown prefix, and fail says the container did not stop in time
StopContainer(r, short, fail) ==
    LET m == Resolve(r, short)
    IN  IF Cardinality(m) # 1 \/ fail THEN [rt |-> r, err |-> TRUE]
        ELSE [rt |-> [r EXCEPT !.containers =
                        {IF c \in m THEN [c EXCEPT !.state = "exited"] ELSE c :
                           c \in r.containers}],
              err |-> FALSE]

\* the label filter of filters.Args{} and of dangling=false: none
NoLabel == ""

\* Client.PruneContainers: filters.Args{}, every stopped container passing
PruneContainers(r) ==
    [r EXCEPT !.containers =
        {c \in @ : c.state = "running" \/ ~Passes(NoLabel, c.project)}]

\* Client.PruneVolumes: filters.Args{}, every unused volume passing
PruneVolumes(r) ==
    [r EXCEPT !.volumes = {v \in @ : InUse(r, v) \/ ~Passes(NoLabel, v)}]

\* Client.PruneNetworks: filters.Args{}, every unused network passing
PruneNetworks(r) ==
    [r EXCEPT !.networks = {n \in @ : InUse(r, n) \/ ~Passes(NoLabel, n)}]

\* Client.PruneImages: dangling=false, every unused image passing
PruneImages(r) ==
    [r EXCEPT !.images = {i \in @ : InUse(r, i) \/ ~Passes(NoLabel, i)}]

\* identifier of the container compose creates for a service
NewId(sv) == [short |-> 100 + sv, rest |-> 100 + sv]

\* docker compose -p project up -d --remove-orphans: every service of the
\* definition has a running container afterwards, and the containers of the
\* project that belong to no service of the definition are removed
ComposeUp(r, project) ==
    LET has(sv) == \E c \in r.containers :
                      c.project = project /\ c.service = sv
        new == {[id |-> NewId(sv), project |-> project, service |-> sv,
                 state |-> "running", inspect |-> ""] :
                  sv \in {x \in 1..MaxServices : ~has(x)}}
    IN  [containers |-> {IF c.project = project
                         THEN [c EXCEPT !.state = "running"] ELSE c :
                           c \in {x \in r.containers :
                                    x.project = project =>
                                    x.service \in 1..MaxServices}} \cup new,
         volumes  |-> r.volumes \cup {project},
         networks |-> r.networks \cup {project},
         images   |-> r.images \cup {project}]

\* docker compose -p project down [-v]
ComposeDown(r, project, removeVolumes) ==
    [r EXCEPT !.containers = {c \in @ : c.project # project},
              !.networks = @ \ {project},
              !.volumes = IF removeVolumes THEN @ \ {project} ELSE @]

\* docker compose -p project stop|restart [service]; sv = 0 is every service
ComposeSet(r, project, sv, state) ==
    [r EXCEPT !.containers =
        {IF c.project = project /\ (sv = 0 \/ c.service = sv)
         THEN [c EXCEPT !.state = state] ELSE c : c \in @}]

\* docker compose -p project pull
ComposePull(r, project) == [r EXCEPT !.images = @ \cup {project}]

\* a runtime invocation: the operation, its arguments, the project it is
\* scoped to ("" when unscoped) and whether it succeeded
Call(op, arg, scope, ok) == [op |-> op, arg |-> arg, scope |-> scope, ok |-> ok]

----------------------------------------------------------------------------
(* Initial states: a command line, a loaded configuration, a host *)

Commands == {"deploy", "stop", "restart", "pull"}

FlagNames == {"dryRun", "verbose", "pull", "noDirs", "noFiles", "force",
              "prune", "volumes", "removeOrphans"}

\* the flags each command declares, besides the global ones
FlagsOf(c) ==
    {"dryRun", "verbose"} \cup
    CASE c = "deploy"  -> {"pull", "noDirs", "noFiles", "force", "prune"}
      [] c = "stop"    -> {"removeOrphans", "volumes", "prune"}
      [] c = "restart" -> {"pull", "force"}
      [] c = "pull"    -> {}

\* the default of a flag: deploy --prune and stop --remove-orphans are true
FlagDefault(c, n) ==
    \/ c = "deploy" /\ n = "prune"
    \/ c = "stop" /\ n = "removeOrphans"

\* the flag values of a command line that sets the flags of S
FlagsWith(c, S) ==
    [n \in FlagNames |-> IF n \in S THEN ~FlagDefault(c, n)
                         ELSE FlagDefault(c, n)]

\* the service names of a command line: none, or the first n services in turn
ArgLists == {[i \in 1..n |-> ((i - 1) % MaxServices) + 1] : n \in 0..MaxArgs}

\* the config directory: .env, a script, the first k manifest sources
ConfigDirFs(k) ==
    LET names == {".env", "restart.sh"} \cup
                 {ConfigFiles[i].Source : i \in 1..k}
        dir   == [kind |-> "dir", mode |-> "0755", owner |-> "root",
                  content |-> ""]
        file  == [kind |-> "file", mode |-> "0600", owner |-> "root",
                  content |-> "new"]
    IN  [q \in {<<"cfg">>} \cup {<<"cfg", n>> : n \in names} |->
            IF q = <<"cfg">> THEN dir ELSE file]

AllOk == [mkdirFail |-> {}, openFail |-> {}, chownOk |-> TRUE, chmodOk |-> TRUE]

OsEnvs ==
    {AllOk,
     [AllOk EXCEPT !.chownOk = FALSE],
     [AllOk EXCEPT !.chmodOk = FALSE],
     [AllOk EXCEPT !.mkdirFail = {<<"data">> \o DataDirectories[1]}],
     [AllOk EXCEPT !.mkdirFail =
         {<<"media">> \o MediaDirectories[Len(MediaDirectories)]}],
     [AllOk EXCEPT !.openFail = {<<"data">> \o ConfigFiles[1].Destination}],
     [AllOk EXCEPT !.openFail = {<<"data">> \o SpecialFiles[1].Path}]}

\* the data and media folders as an earlier deploy left them
Provisioned(f, um) ==
    LET c  == Load(NoValue)
        s0 == [fs |-> f, acts |-> <<>>, report |-> <<>>, err |-> FALSE,
               named |-> <<>>]
        s1 == CreateDirectories(s0, c, um, FALSE, FALSE, AllOk)
    IN  CopyConfigFiles(s1, c, um, FALSE, FALSE, AllOk).fs

Umasks == {"022", "000"}

\* containers 1..n, each of some project and running or not; when collide
\* holds their identifiers share the twelve-character prefix
RuntimesWith(answers) ==
    LET mk(n, f, collide) ==
          LET cs == {[id |-> [short |-> IF collide THEN 1 ELSE i, rest |-> i],
                      project |-> f[i][1], service |-> i,
                      state |-> f[i][2], inspect |-> f[i][3]] : i \in 1..n}
              ps == {c.project : c \in cs}
          IN  [containers |-> cs, volumes |-> ps, networks |-> ps,
               images |-> ps]
    IN  UNION {{mk(n, f, k) :
                   f \in [1..n -> Projects \X {"running", "exited"} \X answers],
                   k \in BOOLEAN} :
                  n \in 0..MaxContainers}

\* the hosts deploy, stop, restart and pull start on: no command of these
\* reads the health of a container
InitialRuntimes == RuntimesWith({""})

EmptyRuntime ==
    [containers |-> {}, volumes |-> {}, networks |-> {}, images |-> {}]

\* the numbers of manifest sources a config directory may hold
SourceCounts == (0..MaxSources) \cup {Len(ConfigFiles)}

\* hosts whose filesystem side varies
FsHosts ==
    {[fs |-> f, umask |-> um, osEnv |-> AllOk, rt |-> EmptyRuntime] :
        f \in {ConfigDirFs(k) : k \in SourceCounts} \cup
              {Provisioned(ConfigDirFs(Len(ConfigFiles)), "022")},
        um \in Umasks}
    \cup
    {[fs |-> ConfigDirFs(Len(ConfigFiles)), umask |-> "022", osEnv |-> e,
      rt |-> EmptyRuntime] : e \in OsEnvs}

\* hosts whose runtime side varies
RtHosts ==
    {[fs |-> ConfigDirFs(0), umask |-> "022", osEnv |-> AllOk, rt |-> r] :
        r \in InitialRuntimes}

\* the values COMPOSE_PROJECT_NAME may have in the environment file
ProjectValues == {NoValue, ""}

Init ==
    /\ cmd \in Commands
    /\ \E S \in SUBSET FlagsOf(cmd) :
          /\ Cardinality(S) <= MaxFlags
          /\ flags = FlagsWith(cmd, S)
    /\ args \in IF cmd = "deploy" THEN {<<>>} ELSE ArgLists
    /\ \E h \in IF cmd = "deploy" THEN FsHosts \cup RtHosts ELSE RtHosts :
          /\ fs = h.fs
          /\ umask = h.umask
          /\ osEnv = h.osEnv
          /\ rt = h.rt
          /\ cfg \in {Load(v) : v \in IF h.rt = EmptyRuntime
                                      THEN {NoValue} ELSE ProjectValues}
    /\ pc = "start"
    /\ result = "none"
    /\ errOp = "none"
    /\ events = <<>>
    /\ acts = <<>>
    /\ report = <<>>
    /\ calls = <<>>
    /\ containers = <<>>
    /\ stopIdx = 1
    /\ verify = [listed |-> FALSE, running |-> 0, failed |-> 0]
    /\ failures = 0
    /\ parser = NoParser

----------------------------------------------------------------------------
(* cli: runDeploy *)

\* the statement order of runDeploy, with steps 2 and 3 exchanged
NextPcSwapped ==
    [start |-> "step3", step3 |-> "step2", step2 |-> "gate", gate |-> "step4",
     step4 |-> "step5", step5 |-> "client", client |-> "list",
     list |-> "stop", stop |-> "pruneC", pruneC |-> "pruneV",
     pruneV |-> "pruneN", pruneN |-> "step7", step7 |-> "step8",
     step8 |-> "step9", step9 |-> "done"]

\* the statement order of runDeploy: the position reached when the
\* statement at a position completes without returning
NextPc ==
    [start |-> "step2", step2 |-> "step3", step3 |-> "gate", gate |-> "step4",
     step4 |-> "step5", step5 |-> "client", client |-> "list",
     list |-> "stop", stop |-> "pruneC", pruneC |-> "pruneV",
     pruneV |-> "pruneN", pruneN |-> "step7", step7 |-> "step8",
     step8 |-> "step9", step9 |-> "done"]

\* OnError where a staging failure is a warning
OnErrorStagingWarn ==
    [createDirs |-> "fatal", setPerms |-> "fatal", copyFiles |-> "warn",
     config |-> "fatal", pull |-> "fatal", newClient |-> "fatal",
     list |-> "warn", stop |-> "warn", pruneC |-> "warn", pruneV |-> "warn",
     pruneN |-> "warn", up |-> "fatal", services |-> "warn",
     pruneImages |-> "warn"]

\* OnError where a failed image prune is returned
OnErrorImagePruneFatal ==
    [createDirs |-> "fatal", setPerms |-> "fatal", copyFiles |-> "fatal",
     config |-> "fatal", pull |-> "fatal", newClient |-> "fatal",
     list |-> "warn", stop |-> "warn", pruneC |-> "warn", pruneV |-> "warn",
     pruneN |-> "warn", up |-> "fatal", services |-> "warn",
     pruneImages |-> "fatal"]

\* OnError where a failed stop is returned
OnErrorStopFatal ==
    [createDirs |-> "fatal", setPerms |-> "fatal", copyFiles |-> "fatal",
     config |-> "fatal", pull |-> "fatal", newClient |-> "fatal",
     list |-> "warn", stop |-> "fatal", pruneC |-> "warn", pruneV |-> "warn",
     pruneN |-> "warn", up |-> "fatal", services |-> "warn",
     pruneImages |-> "warn"]

\* OnError where a failed volume prune is returned
OnErrorPruneFatal ==
    [createDirs |-> "fatal", setPerms |-> "fatal", copyFiles |-> "fatal",
     config |-> "fatal", pull |-> "fatal", newClient |-> "fatal",
     list |-> "warn", stop |-> "warn", pruneC |-> "warn", pruneV |-> "fatal",
     pruneN |-> "warn", up |-> "fatal", services |-> "warn",
     pruneImages |-> "warn"]

\* OnError where a failed service enumeration is returned
OnErrorVerifyFatal ==
    [createDirs |-> "fatal", setPerms |-> "fatal", copyFiles |-> "fatal",
     config |-> "fatal", pull |-> "fatal", newClient |-> "fatal",
     list |-> "warn", stop |-> "warn", pruneC |-> "warn", pruneV |-> "warn",
     pruneN |-> "warn", up |-> "fatal", services |-> "fatal",
     pruneImages |-> "warn"]

\* what runDeploy does with the error of each call: "fatal" where it
\* returns fmt.Errorf, "warn" where it prints a warning and goes on
OnError ==
    [createDirs |-> "fatal", setPerms |-> "fatal", copyFiles |-> "fatal",
     config |-> "fatal", pull |-> "fatal", newClient |-> "fatal",
     list |-> "warn", stop |-> "warn", pruneC |-> "warn", pruneV |-> "warn",
     pruneN |-> "warn", up |-> "fatal", services |-> "warn",
     pruneImages |-> "warn"]

Ev(ph, ev) == [ph |-> ph, ev |-> ev]

\* the outcomes the runtime may still give a call: success, or failure
\* while fewer than MaxFailures calls have failed
Outcomes == IF failures < MaxFailures THEN BOOLEAN ELSE {TRUE}

Failed(ok) == failures' = failures + (IF ok THEN 0 ELSE 1)

Outcome(ok) == IF ok THEN "ok" ELSE "fail"

St == [fs |-> fs, acts |-> acts, report |-> report, err |-> FALSE,
       named |-> <<>>]

\* control after the call op made at position here returned
Finish(op, ok, here) ==
    LET fatal == ~ok /\ OnError[op] = "fatal"
    IN  /\ pc' = IF fatal THEN "done" ELSE NextPc[here]
        /\ result' = IF fatal THEN "err"
                     ELSE IF NextPc[here] = "done" THEN "ok" ELSE "none"
        /\ errOp' = IF fatal THEN op ELSE errOp

\* Step 1: stack.CreateDirectories unless --no-directories
DeployStep1 ==
    /\ cmd = "deploy" /\ pc = "start"
    /\ IF flags.noDirs
       THEN /\ events' = Append(events, Ev(1, "skip"))
            /\ Finish("createDirs", TRUE, "start")
            /\ UNCHANGED <<fs, acts, report>>
       ELSE LET r == CreateDirectories(St, cfg, umask, flags.verbose,
                                       flags.dryRun, osEnv)
            IN  /\ fs' = r.fs /\ acts' = r.acts /\ report' = r.report
                /\ events' = events \o <<Ev(1, "start"), Ev(1, Outcome(~r.err))>>
                /\ Finish("createDirs", ~r.err, "start")
    /\ UNCHANGED <<cmd, flags, cfg, umask, rt, calls, containers, stopIdx,
                   verify, args, osEnv, failures>>
    /\ UNCHANGED parser

\* Step 2: stack.SetConfigPermissions
DeployStep2 ==
    /\ cmd = "deploy" /\ pc = "step2"
    /\ LET r == SetConfigPermissions(St, cfg, flags.verbose, flags.dryRun, osEnv)
       IN  /\ fs' = r.fs /\ acts' = r.acts /\ report' = r.report
           /\ events' = events \o <<Ev(2, "start"), Ev(2, Outcome(~r.err))>>
           /\ Finish("setPerms", ~r.err, "step2")
    /\ UNCHANGED <<cmd, flags, cfg, umask, rt, calls, containers, stopIdx,
                   verify, args, osEnv, failures>>
    /\ UNCHANGED parser

\* Step 3: stack.CopyConfigFiles unless --no-files
DeployStep3 ==
    /\ cmd = "deploy" /\ pc = "step3"
    /\ IF flags.noFiles
       THEN /\ events' = Append(events, Ev(3, "skip"))
            /\ Finish("copyFiles", TRUE, "step3")
            /\ UNCHANGED <<fs, acts, report>>
       ELSE LET r == CopyConfigFiles(St, cfg, umask, flags.verbose,
                                     flags.dryRun, osEnv)
            IN  /\ fs' = r.fs /\ acts' = r.acts /\ report' = r.report
                /\ events' = events \o <<Ev(3, "start"), Ev(3, Outcome(~r.err))>>
                /\ Finish("copyFiles", ~r.err, "step3")
    /\ UNCHANGED <<cmd, flags, cfg, umask, rt, calls, containers, stopIdx,
                   verify, args, osEnv, failures>>
    /\ UNCHANGED parser

\* the dry-run return between step 3 and step 4
DeployDryRunGate ==
    /\ cmd = "deploy" /\ pc = "gate"
    /\ IF flags.dryRun
       THEN pc' = "done" /\ result' = "ok"
       ELSE pc' = NextPc["gate"] /\ result' = result
    /\ UNCHANGED <<cmd, flags, cfg, umask, errOp, events, fs, acts, report,
                   rt, calls, containers, stopIdx, verify, args, osEnv, failures>>
    /\ UNCHANGED parser

\* Compose.Up: the arguments after the base arguments
UpArgs(detach, build) ==
    <<"up">> \o (IF detach THEN <<"-d">> ELSE <<>>)
             \o (IF build THEN <<"--build">> ELSE <<>>)
             \o <<"--remove-orphans">>

\* Compose.IsRunning: [val, err]; ps -q prints the identifier of the
\* service's running container, and fail says the invocation failed
IsRunning(r, project, sv, fail) ==
    IF fail THEN [val |-> FALSE, err |-> TRUE]
    ELSE [val |-> \E c \in r.containers :
                     c.project = project /\ c.service = sv
                     /\ c.state = "running",
          err |-> FALSE]

\* Step 4: compose.Config
DeployStep4 ==
    /\ cmd = "deploy" /\ pc = "step4"
    /\ \E ok \in Outcomes :
          /\ calls' = Append(calls, Call("compose config", <<"config", "--quiet">>,
                                         cfg.ProjectName, ok))
          /\ events' = events \o <<Ev(4, "start"), Ev(4, Outcome(ok))>>
          /\ Failed(ok)
          /\ Finish("config", ok, "step4")
    /\ UNCHANGED <<cmd, flags, cfg, umask, fs, acts, report, rt, containers,
                   stopIdx, verify, args, osEnv>>
    /\ UNCHANGED parser

\* Step 5: compose.Pull when --pull
DeployStep5 ==
    /\ cmd = "deploy" /\ pc = "step5"
    /\ IF flags.pull
       THEN \E ok \in Outcomes :
              /\ calls' = Append(calls, Call("compose pull", <<"pull">>,
                                             cfg.ProjectName, ok))
              /\ rt' = IF ok THEN ComposePull(rt, cfg.ProjectName) ELSE rt
              /\ events' = events \o <<Ev(5, "start"), Ev(5, Outcome(ok))>>
              /\ Failed(ok)
              /\ Finish("pull", ok, "step5")
       ELSE /\ events' = Append(events, Ev(5, "skip"))
            /\ Finish("pull", TRUE, "step5")
            /\ UNCHANGED <<rt, calls, failures>>
    /\ UNCHANGED <<cmd, flags, cfg, umask, fs, acts, report, containers,
                   stopIdx, verify, args, osEnv>>
    /\ UNCHANGED parser

\* Step 6: docker.NewClient
DeployNewClient ==
    /\ cmd = "deploy" /\ pc = "client"
    /\ \E ok \in Outcomes :
          /\ events' = events \o (IF ok THEN <<Ev(6, "start")>>
                                  ELSE <<Ev(6, "start"), Ev(6, "fail")>>)
          /\ Failed(ok)
          /\ Finish("newClient", ok, "client")
    /\ UNCHANGED <<cmd, flags, cfg, umask, fs, acts, report, rt, calls,
                   containers, stopIdx, verify, args, osEnv>>
    /\ UNCHANGED parser

\* Step 6: client.ListContainers(ctx, false)
DeployList ==
    /\ cmd = "deploy" /\ pc = "list"
    /\ \E ok \in Outcomes :
          LET l == IF ok THEN ListContainers(cfg.ProjectName, rt, FALSE)
                   ELSE <<>>
          IN  /\ containers' = l
              /\ calls' = Append(calls, Call("api list", <<FALSE>>,
                                   IF cfg.ProjectName # "" THEN cfg.ProjectName
                                   ELSE NoLabel, ok))
              /\ Failed(ok)
              /\ Finish("list", ok, IF Len(l) > 0 THEN "list" ELSE "stop")
    /\ UNCHANGED <<cmd, flags, cfg, umask, events, fs, acts, report, rt,
                   stopIdx, verify, args, osEnv>>
    /\ UNCHANGED parser

\* Step 6: one iteration of the loop calling client.StopContainer
DeployStop ==
    /\ cmd = "deploy" /\ pc = "stop"
    /\ stopIdx <= Len(containers)
    /\ \E ok \in Outcomes :
          LET r == StopContainer(rt, containers[stopIdx].ID, ~ok)
          IN  /\ Failed(ok)
              /\ rt' = r.rt
              /\ calls' = Append(calls, Call("api stop", containers[stopIdx].ID,
                                             NoLabel, ~r.err))
              /\ stopIdx' = stopIdx + 1
              /\ IF stopIdx < Len(containers) /\ (r.err => OnError.stop = "warn")
                 THEN UNCHANGED <<pc, result, errOp>>
                 ELSE Finish("stop", ~r.err, "stop")
    /\ UNCHANGED <<cmd, flags, cfg, umask, events, fs, acts, report,
                   containers, verify, args, osEnv>>
    /\ UNCHANGED parser

\* Step 6: client.PruneContainers
DeployPruneContainers ==
    /\ cmd = "deploy" /\ pc = "pruneC"
    /\ \E ok \in Outcomes :
          /\ rt' = IF ok THEN PruneContainers(rt) ELSE rt
          /\ calls' = Append(calls, Call("api prune containers", <<>>, NoLabel, ok))
          /\ Failed(ok)
          /\ Finish("pruneC", ok, "pruneC")
    /\ UNCHANGED <<cmd, flags, cfg, umask, events, fs, acts, report,
                   containers, stopIdx, verify, args, osEnv>>
    /\ UNCHANGED parser

\* Step 6: client.PruneVolumes
DeployPruneVolumes ==
    /\ cmd = "deploy" /\ pc = "pruneV"
    /\ \E ok \in Outcomes :
          /\ rt' = IF ok THEN PruneVolumes(rt) ELSE rt
          /\ calls' = Append(calls, Call("api prune volumes", <<>>, NoLabel, ok))
          /\ Failed(ok)
          /\ Finish("pruneV", ok, "pruneV")
    /\ UNCHANGED <<cmd, flags, cfg, umask, events, fs, acts, report,
                   containers, stopIdx, verify, args, osEnv>>
    /\ UNCHANGED parser

\* Step 6: client.PruneNetworks, the last statement of the step
DeployPruneNetworks ==
    /\ cmd = "deploy" /\ pc = "pruneN"
    /\ \E ok \in Outcomes :
          /\ rt' = IF ok THEN PruneNetworks(rt) ELSE rt
          /\ calls' = Append(calls, Call("api prune networks", <<>>, NoLabel, ok))
          /\ events' = Append(events, Ev(6, "ok"))
          /\ Failed(ok)
          /\ Finish("pruneN", ok, "pruneN")
    /\ UNCHANGED <<cmd, flags, cfg, umask, fs, acts, report,
                   containers, stopIdx, verify, args, osEnv>>
    /\ UNCHANGED parser

\* Step 7: compose.Up(ctx, true, force)
DeployStep7 ==
    /\ cmd = "deploy" /\ pc = "step7"
    /\ \E ok \in Outcomes :
          /\ rt' = IF ok THEN ComposeUp(rt, cfg.ProjectName) ELSE rt
          /\ calls' = Append(calls, Call("compose up", UpArgs(TRUE, flags.force),
                                         cfg.ProjectName, ok))
          /\ events' = events \o <<Ev(7, "start"), Ev(7, Outcome(ok))>>
          /\ Failed(ok)
          /\ Finish("up", ok, "step7")
    /\ UNCHANGED <<cmd, flags, cfg, umask, fs, acts, report,
                   containers, stopIdx, verify, args, osEnv>>
    /\ UNCHANGED parser

\* the invocations of step 8 for the services 1..n
RECURSIVE PsCalls(_, _, _)
PsCalls(n, project, errs) ==
    IF n = 0 THEN <<>>
    ELSE Append(PsCalls(n - 1, project, errs),
                Call("compose ps", <<"ps", "-q", Services[n]>>, project,
                     n \notin errs))

\* Step 8: after the settling delay, compose.ConfigServices and one
\* compose.IsRunning per service; down are the services whose container
\* exited during the delay, errs those whose ps invocation fails
DeployStep8 ==
    /\ cmd = "deploy" /\ pc = "step8"
    /\ \E ok \in Outcomes, down \in SUBSET (1..MaxServices),
          errs \in SUBSET (1..MaxServices) :
          LET r   == [rt EXCEPT !.containers =
                        {IF c.project = cfg.ProjectName /\ c.service \in down
                         THEN [c EXCEPT !.state = "exited"] ELSE c : c \in @}]
              up  == {sv \in 1..MaxServices :
                        LET q == IsRunning(r, cfg.ProjectName, Services[sv],
                                           sv \in errs)
                        IN  ~q.err /\ q.val}
              svc == Call("compose config --services",
                          <<"config", "--services">>, cfg.ProjectName, ok)
              n   == IF ok THEN Cardinality(down \cup errs) ELSE 1
          IN  /\ ok \/ (down = {} /\ errs = {})
              /\ down \cap errs = {}
              /\ failures + n <= MaxFailures
              /\ failures' = failures + n
              /\ rt' = r
              /\ calls' = IF ok
                          THEN Append(calls, svc)
                               \o PsCalls(MaxServices, cfg.ProjectName, errs)
                          ELSE Append(calls, svc)
              /\ verify' = IF ok
                           THEN [listed |-> TRUE, running |-> Cardinality(up),
                                 failed |-> MaxServices - Cardinality(up)]
                           ELSE verify
              /\ events' = events \o <<Ev(8, "start"), Ev(8, Outcome(ok))>>
              /\ Finish("services", ok, "step8")
    /\ UNCHANGED <<cmd, flags, cfg, umask, fs, acts, report,
                   containers, stopIdx, args, osEnv>>
    /\ UNCHANGED parser

\* Step 9: client.PruneImages when --prune, then return nil
DeployStep9 ==
    /\ cmd = "deploy" /\ pc = "step9"
    /\ IF flags.prune
       THEN \E ok \in Outcomes :
              /\ rt' = IF ok THEN PruneImages(rt) ELSE rt
              /\ calls' = Append(calls, Call("api prune images", <<>>, NoLabel, ok))
              /\ events' = events \o <<Ev(9, "start"), Ev(9, Outcome(ok))>>
              /\ Failed(ok)
              /\ Finish("pruneImages", ok, "step9")
       ELSE /\ events' = Append(events, Ev(9, "skip"))
            /\ Finish("pruneImages", TRUE, "step9")
            /\ UNCHANGED <<rt, calls, failures>>
    /\ UNCHANGED <<cmd, flags, cfg, umask, fs, acts, report,
                   containers, stopIdx, verify, args, osEnv>>
    /\ UNCHANGED parser

----------------------------------------------------------------------------
(* cli: runStop, runRestart, runPull *)

\* the commands return the error of a compose call and of NewClient, and
\* print a warning for the error of a prune call
CmdOnError ==
    [service |-> "fatal", down |-> "fatal", up |-> "fatal", pull |-> "fatal",
     restart |-> "fatal", newClient |-> "fatal",
     pruneC |-> "warn", pruneV |-> "warn", pruneN |-> "warn"]

\* control after the call op of runStop / runRestart / runPull returned
Then(op, ok, next) ==
    LET fatal == ~ok /\ CmdOnError[op] = "fatal"
    IN  /\ pc' = IF fatal THEN "done" ELSE next
        /\ result' = IF fatal THEN "err"
                     ELSE IF next = "done" THEN "ok" ELSE "none"
        /\ errOp' = IF fatal THEN op ELSE errOp

\* the dry-run return that opens runStop, runRestart and runPull
CmdBegin ==
    /\ cmd \in {"stop", "restart", "pull"} /\ pc = "start"
    /\ IF flags.dryRun
       THEN pc' = "done" /\ result' = "ok"
       ELSE /\ result' = result
            /\ pc' = IF cmd = "restart" /\ flags.pull THEN "pull"
                     ELSE IF Len(args) > 0 THEN "services"
                     ELSE IF cmd = "stop" THEN "down"
                     ELSE IF cmd = "pull" THEN "pull"
                     ELSE IF flags.force THEN "down" ELSE "restart"
    /\ UNCHANGED <<cmd, flags, cfg, umask, errOp, events, fs, acts, report,
                   rt, calls, containers, stopIdx, verify, args, osEnv, failures>>
    /\ UNCHANGED parser

\* the position after the stopping / restarting / pulling part
AfterMain == IF cmd = "stop" /\ flags.prune THEN "client" ELSE "done"

\* one iteration of the loop over the services named on the command line:
\* compose.StopService, compose.RestartService or compose.PullService
CmdService ==
    /\ cmd \in {"stop", "restart", "pull"} /\ pc = "services"
    /\ stopIdx <= Len(args)
    /\ \E ok \in Outcomes :
          LET sv == args[stopIdx]
              verb == IF cmd = "stop" THEN "stop"
                      ELSE IF cmd = "restart" THEN "restart" ELSE "pull"
          IN  /\ calls' = Append(calls, Call("compose " \o verb, <<verb, sv>>,
                                             cfg.ProjectName, ok))
              /\ rt' = IF ~ok THEN rt
                       ELSE IF cmd = "stop"
                       THEN ComposeSet(rt, cfg.ProjectName, sv, "exited")
                       ELSE IF cmd = "restart"
                       THEN ComposeSet(rt, cfg.ProjectName, sv, "running")
                       ELSE ComposePull(rt, cfg.ProjectName)
              /\ stopIdx' = stopIdx + 1
              /\ Failed(ok)
              /\ Then("service", ok,
                      IF stopIdx < Len(args) THEN "services" ELSE AfterMain)
    /\ UNCHANGED <<cmd, flags, cfg, umask, events, fs, acts, report,
                   containers, verify, args, osEnv>>
    /\ UNCHANGED parser

\* compose.Down: runStop without service names, runRestart with --force
CmdDown ==
    /\ cmd \in {"stop", "restart"} /\ pc = "down"
    /\ \E ok \in Outcomes :
          LET vol == IF cmd = "stop" THEN flags.volumes ELSE FALSE
              orp == IF cmd = "stop" THEN flags.removeOrphans ELSE TRUE
          IN  /\ calls' = Append(calls,
                    Call("compose down",
                         <<"down">> \o (IF vol THEN <<"-v">> ELSE <<>>)
                           \o (IF orp THEN <<"--remove-orphans">> ELSE <<>>),
                         cfg.ProjectName, ok))
              /\ rt' = IF ok THEN ComposeDown(rt, cfg.ProjectName, vol) ELSE rt
              /\ Failed(ok)
              /\ Then("down", ok, IF cmd = "stop" THEN AfterMain ELSE "up")
    /\ UNCHANGED <<cmd, flags, cfg, umask, events, fs, acts, report,
                   containers, stopIdx, verify, args, osEnv>>
    /\ UNCHANGED parser

\* compose.Up(ctx, true, false) of runRestart --force
RestartUp ==
    /\ cmd = "restart" /\ pc = "up"
    /\ \E ok \in Outcomes :
          /\ calls' = Append(calls, Call("compose up", UpArgs(TRUE, FALSE),
                                         cfg.ProjectName, ok))
          /\ rt' = IF ok THEN ComposeUp(rt, cfg.ProjectName) ELSE rt
          /\ Failed(ok)
          /\ Then("up", ok, "done")
    /\ UNCHANGED <<cmd, flags, cfg, umask, events, fs, acts, report,
                   containers, stopIdx, verify, args, osEnv>>
    /\ UNCHANGED parser

\* compose.Restart of runRestart
RestartAll ==
    /\ cmd = "restart" /\ pc = "restart"
    /\ \E ok \in Outcomes :
          /\ calls' = Append(calls, Call("compose restart", <<"restart">>,
                                         cfg.ProjectName, ok))
          /\ rt' = IF ok THEN ComposeSet(rt, cfg.ProjectName, 0, "running")
                   ELSE rt
          /\ Failed(ok)
          /\ Then("restart", ok, "done")
    /\ UNCHANGED <<cmd, flags, cfg, umask, events, fs, acts, report,
                   containers, stopIdx, verify, args, osEnv>>
    /\ UNCHANGED parser

\* compose.Pull: runPull without service names, runRestart with --pull
CmdPull ==
    /\ cmd \in {"restart", "pull"} /\ pc = "pull"
    /\ \E ok \in Outcomes :
          /\ calls' = Append(calls, Call("compose pull", <<"pull">>,
                                         cfg.ProjectName, ok))
          /\ rt' = IF ok THEN ComposePull(rt, cfg.ProjectName) ELSE rt
          /\ Failed(ok)
          /\ Then("pull", ok,
                  IF cmd = "pull" THEN "done"
                  ELSE IF Len(args) > 0 THEN "services"
                  ELSE IF flags.force THEN "down" ELSE "restart")
    /\ UNCHANGED <<cmd, flags, cfg, umask, events, fs, acts, report,
                   containers, stopIdx, verify, args, osEnv>>
    /\ UNCHANGED parser

\* docker.NewClient of runStop --prune
StopNewClient ==
    /\ cmd = "stop" /\ pc = "client"
    /\ \E ok \in Outcomes :
          /\ Failed(ok)
          /\ Then("newClient", ok, "pruneC")
    /\ UNCHANGED <<cmd, flags, cfg, umask, events, fs, acts, report, rt, calls,
                   containers, stopIdx, verify, args, osEnv>>
    /\ UNCHANGED parser

\* client.PruneContainers of runStop --prune
StopPruneContainers ==
    /\ cmd = "stop" /\ pc = "pruneC"
    /\ \E ok \in Outcomes :
          /\ rt' = IF ok THEN PruneContainers(rt) ELSE rt
          /\ calls' = Append(calls, Call("api prune containers", <<>>, NoLabel, ok))
          /\ Failed(ok)
          /\ Then("pruneC", ok, "pruneV")
    /\ UNCHANGED <<cmd, flags, cfg, umask, events, fs, acts, report,
                   containers, stopIdx, verify, args, osEnv>>
    /\ UNCHANGED parser

\* client.PruneVolumes of runStop --prune
StopPruneVolumes ==
    /\ cmd = "stop" /\ pc = "pruneV"
    /\ \E ok \in Outcomes :
          /\ rt' = IF ok THEN PruneVolumes(rt) ELSE rt
          /\ calls' = Append(calls, Call("api prune volumes", <<>>, NoLabel, ok))
          /\ Failed(ok)
          /\ Then("pruneV", ok, "pruneN")
    /\ UNCHANGED <<cmd, flags, cfg, umask, events, fs, acts, report,
                   containers, stopIdx, verify, args, osEnv>>
    /\ UNCHANGED parser

\* client.PruneNetworks of runStop --prune
StopPruneNetworks ==
    /\ cmd = "stop" /\ pc = "pruneN"
    /\ \E ok \in Outcomes :
          /\ rt' = IF ok THEN PruneNetworks(rt) ELSE rt
          /\ calls' = Append(calls, Call("api prune networks", <<>>, NoLabel, ok))
          /\ Failed(ok)
          /\ Then("pruneN", ok, "done")
    /\ UNCHANGED <<cmd, flags, cfg, umask, events, fs, acts, report,
                   containers, stopIdx, verify, args, osEnv>>
    /\ UNCHANGED parser

----------------------------------------------------------------------------

Next ==
    \/ DeployStep1
    \/ DeployStep2
    \/ DeployStep3
    \/ DeployDryRunGate
    \/ DeployStep4
    \/ DeployStep5
    \/ DeployNewClient
    \/ DeployList
    \/ DeployStop
    \/ DeployPruneContainers
    \/ DeployPruneVolumes
    \/ DeployPruneNetworks
    \/ DeployStep7
    \/ DeployStep8
    \/ DeployStep9
    \/ CmdBegin
    \/ CmdService
    \/ CmdDown
    \/ RestartUp
    \/ RestartAll
    \/ CmdPull
    \/ StopNewClient
    \/ StopPruneContainers
    \/ StopPruneVolumes
    \/ StopPruneNetworks

Spec == Init /\ [][Next]_vars

----------------------------------------------------------------------------
(* Properties of runDeploy *)

\* the step of runDeploy a runtime invocation belongs to, and its rank
\* inside the step
CallRank(op) ==
    CASE op = "compose config" -> <<4, 1>>
      [] op = "compose pull" -> <<5, 1>>
      [] op = "api list" -> <<6, 1>>
      [] op = "api stop" -> <<6, 2>>
      [] op = "api prune containers" -> <<6, 3>>
      [] op = "api prune volumes" -> <<6, 4>>
      [] op = "api prune networks" -> <<6, 5>>
      [] op = "compose up" -> <<7, 1>>
      [] op = "compose config --services" -> <<8, 1>>
      [] op = "compose ps" -> <<8, 2>>
      [] op = "api prune images" -> <<9, 1>>

\* the step of runDeploy that acts on an item
ActStep(a) ==
    IF a.item = "dir" THEN 1 ELSE IF a.item = "config" THEN 2 ELSE 3

Before(x, y) == x[1] < y[1] \/ (x[1] = y[1] /\ x[2] <= y[2])

Started(ph) == \E k \in DOMAIN events : events[k] = Ev(ph, "start")

Attempted(op) == \E i \in DOMAIN calls : calls[i].op = op

Succeeded(op) == \E i \in DOMAIN calls : calls[i].op = op /\ calls[i].ok

FailedCall(op) == \E i \in DOMAIN calls : calls[i].op = op /\ ~calls[i].ok

\* C1: in every run of deploy the phases start in the order 1..9, a phase
\* starts only when the phase before it has ended with an outcome (or was
\* skipped), no phase runs twice, and every filesystem call and runtime
\* invocation is made inside its own phase, in the order of the source:
\* config, pull, list, stop*, prune containers, volumes, networks, up,
\* services, ps*, prune images.
C1_PhaseOrder ==
    cmd = "deploy" =>
      /\ \A i, j \in DOMAIN events :
            i < j =>
              \/ events[i].ph < events[j].ph
              \/ /\ events[i].ph = events[j].ph
                 /\ j = i + 1
                 /\ events[i].ev = "start"
                 /\ events[j].ev \in {"ok", "fail"}
      /\ \A i \in DOMAIN events :
            (i > 1 /\ events[i].ev = "start") => events[i - 1].ev # "start"
      /\ \A i, j \in DOMAIN calls :
            i < j => Before(CallRank(calls[i].op), CallRank(calls[j].op))
      /\ \A i \in DOMAIN calls : Started(CallRank(calls[i].op)[1])
      /\ \A i \in 1..(Len(acts) - 1) : ActStep(acts[i]) <= ActStep(acts[i + 1])
      /\ \A ph \in 1..3 :
            (\E i \in DOMAIN acts : ActStep(acts[i]) = ph) => Started(ph)
      /\ (calls # <<>> /\ acts # <<>>) => Started(4)

\* a run of deploy that went through all nine phases and succeeded
C1_Witness ==
    /\ cmd = "deploy" /\ pc = "done" /\ result = "ok"
    /\ \A ph \in 1..9 : Started(ph)
    /\ Attempted("api stop")

FatalPhases == {1, 3, 4, 5, 7}

\* C2: when directory provisioning, config staging, definition validation,
\* image pull or bring-up fails, deploy returns an error and nothing of a
\* later phase is started: the failure is the last event of the run, no
\* runtime invocation of a later phase is issued, and after a failed
\* staging compose up is never invoked.
C2_FatalAborts ==
    cmd = "deploy" =>
      \A i \in DOMAIN events :
        (events[i].ev = "fail" /\ events[i].ph \in FatalPhases) =>
          /\ i = Len(events)
          /\ pc = "done" /\ result = "err"
          /\ \A k \in DOMAIN calls : CallRank(calls[k].op)[1] <= events[i].ph
          /\ events[i].ph <= 3 => calls = <<>>
          /\ events[i].ph = 3 => ~Attempted("compose up")

\* config staging failed on an unwritable destination and deploy returned
C2_Witness ==
    /\ cmd = "deploy" /\ pc = "done" /\ result = "err"
    /\ events # <<>> /\ events[Len(events)] = Ev(3, "fail")
    /\ osEnv.openFail # {}

\* C3: when bring-up succeeded, a failed image pruning leaves the result of
\* deploy what it is when pruning succeeds or is disabled: success.
C3_PruneFailureKeepsSuccess ==
    (cmd = "deploy" /\ pc = "done" /\ Succeeded("compose up")
       /\ FailedCall("api prune images"))
      => (result = "ok" /\ errOp = "none")

\* deploy returned after bring-up succeeded and image pruning failed
C3_Witness ==
    /\ cmd = "deploy" /\ pc = "done" /\ result = "ok"
    /\ Succeeded("compose up") /\ FailedCall("api prune images")

\* C4: with --dry-run, deploy, stop, restart and pull make no mutating
\* filesystem call and no runtime invocation, leave the filesystem and the
\* runtime as they were, and return success.
C4_DryRunPure ==
    /\ [](flags.dryRun =>
            /\ acts = <<>>
            /\ calls = <<>>
            /\ pc = "done" => result = "ok")
    /\ [][flags.dryRun => (fs' = fs /\ rt' = rt)]_vars

\* a dry run of deploy that went through the three provisioner steps
C4_Witness ==
    /\ cmd = "deploy" /\ flags.dryRun /\ pc = "done"
    /\ ~flags.noDirs /\ ~flags.noFiles
    /\ Len(events) = 6

\* the three provisioner steps of deploy run for real on the current
\* filesystem
RealRun ==
    LET s0 == [fs |-> fs, acts |-> <<>>, report |-> <<>>, err |-> FALSE,
               named |-> <<>>]
        s1 == CreateDirectories(s0, cfg, umask, flags.verbose, FALSE, osEnv)
        s2 == SetConfigPermissions(s1, cfg, flags.verbose, FALSE, osEnv)
    IN  CopyConfigFiles(s2, cfg, umask, flags.verbose, FALSE, osEnv)

\* C5: for identical inputs the list of intended actions the provisioner
\* reports under dry-run (directories, manifest copies, special files,
\* config files) equals the list of items the same operations act on with
\* dry-run disabled.
C5_DryRunReportEqualsMutations ==
    (/\ cmd = "deploy" /\ pc = "gate"
     /\ flags.dryRun /\ flags.verbose /\ ~flags.noDirs /\ ~flags.noFiles
     /\ ~RealRun.err)
      => report = RealRun.acts

\* the identifier of the i-th enumerated container of runDeploy
Enumerated == {containers[i].Name : i \in DOMAIN containers}

Foreign(r) == {c \in r.containers : c.project # cfg.ProjectName}

\* C6: the containers the teardown phase of deploy enumerates all carry the
\* configured project label, every stop is sent to an enumerated container,
\* and no container of another project changes in the stop loop.
C6_TeardownScoped ==
    /\ [](cmd = "deploy" =>
            /\ pc = "stop" =>
                 \A id \in Enumerated :
                    \E c \in rt.containers :
                       c.id = id /\ c.project = cfg.ProjectName
            /\ \A c \in Foreign(rt) : c.id \notin Enumerated
            /\ \A k \in DOMAIN calls :
                  calls[k].op = "api stop" =>
                    \E i \in DOMAIN containers : containers[i].ID = calls[k].arg)
    /\ [][(cmd = "deploy" /\ pc = "stop") => Foreign(rt) \subseteq Foreign(rt')]_vars

\* the stop loop ran on a host with a running container of another project:
\* a container of the project was stopped, the other one still runs
C6_Witness ==
    /\ cmd = "deploy" /\ pc = "pruneC"
    /\ Succeeded("api stop")
    /\ \E c \in Foreign(rt) : c.state = "running"

\* a step leaves the containers, volumes, networks and images of the other
\* projects as they were
OthersKept ==
    /\ Foreign(rt) \subseteq Foreign(rt')
    /\ (rt.volumes \ {cfg.ProjectName}) \subseteq rt'.volumes
    /\ (rt.networks \ {cfg.ProjectName}) \subseteq rt'.networks
    /\ (rt.images \ {cfg.ProjectName}) \subseteq rt'.images

\* C7: every list, stop and prune query of the management-API client is
\* scoped by the configured project label, so no run of deploy or stop
\* removes or stops a container, volume, network or image of another
\* project.
C7_OtherProjectsUntouched ==
    /\ [](\A k \in DOMAIN calls :
            calls[k].op \in {"api list", "api prune containers",
                             "api prune volumes", "api prune networks",
                             "api prune images"}
              => calls[k].scope = cfg.ProjectName)
    /\ [][(cmd \in {"deploy", "stop"}) => OthersKept]_vars

\* the identifiers the stop loop has sent a stop to, in order
StopTargets ==
    LET isStop(c) == c.op = "api stop"
        st == SelectSeq(calls, isStop)
    IN  [i \in DOMAIN st |-> st[i].arg]

\* C8: the teardown phase of deploy sends a stop to every enumerated
\* container exactly once and in enumeration order, whatever the outcome of
\* the earlier stops, and a failed stop neither makes deploy return the
\* error nor skips bring-up.
C8_StopLoop ==
    cmd = "deploy" =>
      /\ StopTargets =
           [i \in 1..(IF pc = "stop" THEN stopIdx - 1 ELSE Len(containers)) |->
              containers[i].ID]
      /\ errOp # "stop"
      /\ (pc = "done" /\ FailedCall("api stop")) => Attempted("compose up")

\* deploy succeeded although the first of two stops failed
C8_Witness ==
    /\ cmd = "deploy" /\ pc = "done" /\ result = "ok"
    /\ Len(StopTargets) = 2
    /\ \E i, j \in DOMAIN calls :
          /\ i < j
          /\ calls[i].op = "api stop" /\ ~calls[i].ok
          /\ calls[j].op = "api stop" /\ calls[j].ok

PruneOps == {"pruneC", "pruneV", "pruneN"}

\* C9: in the teardown of deploy and in stop --prune, once prune-containers
\* was attempted prune-volumes and prune-networks are attempted too,
\* whatever each returned, and no command returns the error of a prune.
C9_PrunesIndependent ==
    cmd \in {"deploy", "stop"} =>
      /\ (Attempted("api prune containers") /\ pc # "pruneV")
            => Attempted("api prune volumes")
      /\ (Attempted("api prune volumes") /\ pc # "pruneN")
            => Attempted("api prune networks")
      /\ errOp \notin PruneOps
      /\ (cmd = "stop" /\ pc = "done" /\ Attempted("api prune containers"))
            => result = "ok"

\* stop --prune succeeded although two of its prune calls failed
C9_Witness ==
    /\ cmd = "stop" /\ pc = "done" /\ result = "ok"
    /\ FailedCall("api prune containers") /\ FailedCall("api prune volumes")
    /\ Attempted("api prune networks")

\* C10: once bring-up has succeeded deploy returns success, however many
\* services verification finds not running, whether a running check
\* returns an error, and whether the service enumeration fails.
C10_VerificationAdvisory ==
    (cmd = "deploy" /\ Succeeded("compose up")) =>
      /\ result # "err"
      /\ pc = "done" => result = "ok"
      /\ pc \in {"step8", "step9", "done"}

\* deploy succeeded with a failed running check and a service not running
C10_Witness ==
    /\ cmd = "deploy" /\ pc = "done" /\ result = "ok"
    /\ FailedCall("compose ps")
    /\ verify.listed /\ verify.failed = MaxServices

\* the number of running checks of step 8 that returned an error
PsErrors ==
    LET isErr(c) == c.op = "compose ps" /\ ~c.ok
    IN  Len(SelectSeq(calls, isErr))

\* C11: every deploy run that reaches verification produces a
\* running/not-running tally whose two counts add up to the number of
\* services of the stack definition, a service whose running check
\* returned an error being counted as not running.
C11_TallyAlways ==
    (cmd = "deploy" /\ Started(8) /\ pc \in {"step9", "done"}) =>
      /\ verify.listed
      /\ verify.running + verify.failed = Len(Services)
      /\ verify.failed >= PsErrors

\* step 2 of a real run met a matched config file whose chmod failed
NormalizeFailed ==
    /\ cmd = "deploy" /\ ~flags.dryRun /\ ~osEnv.chmodOk
    /\ Started(2)
    /\ \E i \in DOMAIN acts : acts[i].item = "config"

\* C12: source config permission normalization (phase 2) is fatal: when
\* the chmod of a matched source config file fails deploy returns an error
\* and neither config staging nor any later phase starts.
C12_NormalizationFatal ==
    (NormalizeFailed /\ pc # "step2") =>
      /\ pc = "done" /\ result = "err" /\ errOp = "setPerms"
      /\ \A ph \in 3..9 : ~Started(ph)

----------------------------------------------------------------------------
(* Package stack on its own: the four exported operations of the          *)
(* provisioner called in any order on a host filesystem, as deploy, the   *)
(* interactive shell and the package's callers do.  events holds one      *)
(* entry per call: the operation, its path list, whether it returned an   *)
(* error and the path the error names; acts and report hold the items of  *)
(* the last call.                                                         *)

MaxOps == 2

\* a data folder an earlier deploy left and that was edited since: the
\* manifest destinations hold other bytes and another mode, the special
\* file holds a key and is group and world readable; the config directory
\* holds the first k manifest sources
StaleFs(k) ==
    LET p    == Provisioned(ConfigDirFs(Len(ConfigFiles)), "022")
        dsts == {<<"data">> \o ConfigFiles[i].Destination :
                    i \in DOMAIN ConfigFiles}
        sps  == {<<"data">> \o SpecialFiles[i].Path : i \in DOMAIN SpecialFiles}
        gone == {<<"cfg", ConfigFiles[i].Source>> :
                    i \in (k + 1)..Len(ConfigFiles)}
    IN  [q \in DOMAIN p \ gone |->
            IF q \in dsts THEN [p[q] EXCEPT !.content = "old", !.mode = "0600"]
            ELSE IF q \in sps
            THEN [p[q] EXCEPT !.content = "key", !.mode = "0644"]
            ELSE p[q]]

ProvFs ==
    {ConfigDirFs(k) : k \in SourceCounts}
    \cup {Provisioned(ConfigDirFs(Len(ConfigFiles)), "022")}
    \cup {StaleFs(k) : k \in SourceCounts}

\* the refusals of OsEnvs, and one in the middle of a catalog together
\* with one in the middle of the manifest
ProvEnvs ==
    OsEnvs \cup
    {[AllOk EXCEPT !.mkdirFail = {<<"media">> \o MediaDirectories[2]},
                   !.openFail = {<<"data">> \o ConfigFiles[2].Destination}]}

\* the path lists SetPermissions is called with
PermPaths(c) == {<<c.DataFolder>>, <<c.DataFolder, c.MediaFolder>>}

ProvInit ==
    /\ cmd = "stack"
    /\ \E S \in SUBSET {"dryRun", "verbose"} : flags = FlagsWith("stack", S)
    /\ cfg = Load(NoValue)
    /\ umask \in Umasks
    /\ fs \in ProvFs
    /\ osEnv \in ProvEnvs
    /\ pc = "idle" /\ result = "none" /\ errOp = "none"
    /\ events = <<>> /\ acts = <<>> /\ report = <<>>
    /\ rt = EmptyRuntime /\ calls = <<>> /\ containers = <<>>
    /\ stopIdx = 1
    /\ verify = [listed |-> FALSE, running |-> 0, failed |-> 0]
    /\ args = <<>> /\ failures = 0
    /\ parser = NoParser

\* the provisioner state an operation starts from
Fresh == [fs |-> fs, acts |-> <<>>, report |-> <<>>, err |-> FALSE,
          named |-> <<>>]

\* operation op, called with the path list arg, returned r
Returned(op, arg, r) ==
    /\ fs' = r.fs /\ acts' = r.acts /\ report' = r.report
    /\ result' = IF r.err THEN "err" ELSE "ok"
    /\ errOp' = IF r.err THEN op ELSE "none"
    /\ events' = Append(events, [op |-> op, arg |-> arg, err |-> r.err,
                                 named |-> r.named])
    /\ UNCHANGED <<cmd, flags, cfg, umask, pc, rt, calls, containers, stopIdx,
                   verify, args, osEnv, failures>>

ProvCreateDirectories ==
    /\ cmd = "stack" /\ Len(events) < MaxOps
    /\ Returned("CreateDirectories", <<>>,
                CreateDirectories(Fresh, cfg, umask, flags.verbose,
                                  flags.dryRun, osEnv))
    /\ UNCHANGED parser

ProvSetConfigPermissions ==
    /\ cmd = "stack" /\ Len(events) < MaxOps
    /\ Returned("SetConfigPermissions", <<>>,
                SetConfigPermissions(Fresh, cfg, flags.verbose, flags.dryRun,
                                     osEnv))
    /\ UNCHANGED parser

ProvCopyConfigFiles ==
    /\ cmd = "stack" /\ Len(events) < MaxOps
    /\ Returned("CopyConfigFiles", <<>>,
                CopyConfigFiles(Fresh, cfg, umask, flags.verbose, flags.dryRun,
                                osEnv))
    /\ UNCHANGED parser

ProvSetPermissions ==
    /\ cmd = "stack" /\ Len(events) < MaxOps
    /\ \E paths \in PermPaths(cfg) :
          Returned("SetPermissions", paths,
                   SetPermissions(Fresh, paths, 1, cfg, flags.verbose,
                                  flags.dryRun, osEnv))
    /\ UNCHANGED parser

ProvNext ==
    \/ ProvCreateDirectories
    \/ ProvSetConfigPermissions
    \/ ProvCopyConfigFiles
    \/ ProvSetPermissions

SpecProv == ProvInit /\ [][ProvNext]_vars

\* this step is a call of operation op with dry-run disabled
Ran(op) ==
    /\ cmd = "stack" /\ ~flags.dryRun
    /\ Len(events') = Len(events) + 1
    /\ events'[Len(events')].op = op

\* after the step every special file exists with its restrictive mode,
\* empty when it was absent and with its bytes kept when it was present
SpecialsRestricted ==
    \A i \in DOMAIN SpecialFiles :
       LET p == cfg.DataFolder \o SpecialFiles[i].Path
       IN  /\ Exists(fs', p)
           /\ fs'[p].mode = SpecialFiles[i].Permission
           /\ fs'[p].content = IF Exists(fs, p) THEN fs[p].content ELSE ""

\* the operating system refuses no call on a special file itself
SpecialsWritable ==
    /\ osEnv.chmodOk /\ osEnv.mkdirFail = {}
    /\ \A i \in DOMAIN SpecialFiles :
          (cfg.DataFolder \o SpecialFiles[i].Path) \notin osEnv.openFail

\* C13: after any non-dry-run call of config staging every special entry
\* exists with mode 0600, whether the manifest copies happened, were
\* skipped or failed and whatever mode the file had before; it is created
\* empty when absent and keeps its content when present.
C13_SpecialAlwaysRestricted ==
    [][(Ran("CopyConfigFiles") /\ SpecialsWritable) => SpecialsRestricted]_vars

\* the manifest entries whose source exists before the step
Staged == {i \in DOMAIN ConfigFiles :
             Exists(fs, cfg.ConfigDir \o <<ConfigFiles[i].Source>>)}

\* C14: after a successful config staging the destination of every
\* manifest entry whose source exists holds the bytes of the source and
\* has the mode of the manifest, whether it was absent or existed with
\* another mode.
C14_CopyContentAndMode ==
    [][(Ran("CopyConfigFiles") /\ result' = "ok") =>
         \A i \in Staged :
            LET src == cfg.ConfigDir \o <<ConfigFiles[i].Source>>
                dst == cfg.DataFolder \o ConfigFiles[i].Destination
            IN  /\ Exists(fs', dst)
                /\ fs'[dst].content = fs[src].content
                /\ fs'[dst].mode = ConfigFiles[i].Permission]_vars

\* the manifest entries whose source is missing before the step
Missing == DOMAIN ConfigFiles \ Staged

\* C15: in config staging a manifest entry whose source is missing is
\* skipped without error: its destination is left as it was, every other
\* manifest entry and every special entry is still processed, and the
\* operation returns success even when every source is missing.
C15_MissingSourceSkipped ==
    [][(Ran("CopyConfigFiles") /\ osEnv = AllOk) =>
         /\ result' = "ok"
         /\ \A i \in Missing :
               LET dst == cfg.DataFolder \o ConfigFiles[i].Destination
               IN  Stat(fs', dst) = Stat(fs, dst)
         /\ \A i \in Staged :
               Line("copy", cfg.DataFolder \o ConfigFiles[i].Destination)
                  \in {acts'[k] : k \in DOMAIN acts'}
         /\ \A i \in DOMAIN SpecialFiles :
               Line("special", cfg.DataFolder \o SpecialFiles[i].Path)
                  \in {acts'[k] : k \in DOMAIN acts'}]_vars

\* a staging call on the edited data folder whose config directory holds
\* the first manifest source only: it returned success, the first
\* destination holds the new bytes and the second still holds the old ones
C15_Witness ==
    /\ cmd = "stack" /\ ~flags.dryRun /\ osEnv = AllOk
    /\ Len(events) = 1 /\ events[1].op = "CopyConfigFiles" /\ ~events[1].err
    /\ Exists(fs, cfg.ConfigDir \o <<ConfigFiles[1].Source>>)
    /\ ~Exists(fs, cfg.ConfigDir \o <<ConfigFiles[2].Source>>)
    /\ Stat(fs, cfg.DataFolder \o ConfigFiles[1].Destination).content = "new"
    /\ Stat(fs, cfg.DataFolder \o ConfigFiles[2].Destination).content = "old"
    /\ Len(acts) = 1 + Len(SpecialFiles)

\* the operation of event ev called on the current filesystem under the
\* environment e
Apply(ev, e) ==
    CASE ev.op = "CreateDirectories" ->
           CreateDirectories(Fresh, cfg, umask, flags.verbose, flags.dryRun, e)
      [] ev.op = "SetConfigPermissions" ->
           SetConfigPermissions(Fresh, cfg, flags.verbose, flags.dryRun, e)
      [] ev.op = "CopyConfigFiles" ->
           CopyConfigFiles(Fresh, cfg, umask, flags.verbose, flags.dryRun, e)
      [] ev.op = "SetPermissions" ->
           SetPermissions(Fresh, ev.arg, 1, cfg, flags.verbose, flags.dryRun, e)

\* a filesystem with the owners left out
NoOwner(f) == [q \in DOMAIN f |-> [f[q] EXCEPT !.owner = ""]]

\* C16: in CreateDirectories, CopyConfigFiles, SetConfigPermissions and
\* SetPermissions a failed ownership change is a warning only: the call
\* returns what it returns, and acts on the items and leaves the modes,
\* kinds and bytes it leaves, when the ownership change succeeds.
C16_ChownFailureIsWarning ==
    [][(cmd = "stack" /\ ~osEnv.chownOk /\ Len(events') = Len(events) + 1) =>
         \A ev \in {events'[Len(events')]} :
            \A alt \in {Apply(ev, [osEnv EXCEPT !.chownOk = TRUE])} :
               /\ alt.err = ev.err
               /\ alt.acts = acts'
               /\ NoOwner(alt.fs) = NoOwner(fs')]_vars

\* the four operations were called where every chown is refused: the first
\* data directory has its setgid mode and the owner it was created with,
\* and a second operation returned success as well
C16_Witness ==
    /\ cmd = "stack" /\ ~flags.dryRun /\ ~osEnv.chownOk
    /\ Len(events) = 2
    /\ events[1].op = "CreateDirectories" /\ ~events[1].err
    /\ events[2].op = "SetPermissions" /\ ~events[2].err
    /\ LET d == Stat(fs, cfg.DataFolder \o DataDirectories[1])
       IN  d.kind = "dir" /\ d.mode = "02775" /\ d.owner = ProcessOwner

\* the paths of the two catalogs in the order CreateDirectories takes them
CatalogPaths(c) ==
    [i \in DOMAIN DataDirectories |-> c.DataFolder \o DataDirectories[i]]
    \o [i \in DOMAIN MediaDirectories |-> c.MediaFolder \o MediaDirectories[i]]

\* the catalog entries in the same order
CatalogNames == DataDirectories \o MediaDirectories

\* the last call, CreateDirectories, met a refused directory creation at
\* entry k: it returned the error naming entry k, it acted on entries 1..k
\* and on nothing else, and the later paths are as they were
StoppedAtDir(k) ==
    LET ps == CatalogPaths(cfg)
    IN  /\ result' = "err"
        /\ events'[Len(events')].named = CatalogNames[k]
        /\ acts' = [i \in 1..k |-> Line("dir", ps[i])]
        /\ \A j \in (k + 1)..Len(ps) : Stat(fs', ps[j]) = Stat(fs, ps[j])

\* the same for CopyConfigFiles and a refused write of the destination of
\* manifest entry k
StoppedAtCopy(k) ==
    LET dst(i) == cfg.DataFolder \o ConfigFiles[i].Destination
        done   == SelectSeq([i \in DOMAIN ConfigFiles |-> i],
                            LAMBDA i : i \in Staged /\ i <= k)
    IN  /\ result' = "err"
        /\ events'[Len(events')].named = <<ConfigFiles[k].Source>>
        /\ acts' = [n \in DOMAIN done |-> Line("copy", dst(done[n]))]
        /\ \A j \in (k + 1)..Len(ConfigFiles) : Stat(fs', dst(j)) = Stat(fs, dst(j))
        /\ \A i \in DOMAIN SpecialFiles :
              LET p == cfg.DataFolder \o SpecialFiles[i].Path
              IN  Stat(fs', p) = Stat(fs, p)

\* the first catalog entry whose creation the environment refuses, 0 when
\* there is none
FirstRefusedDir ==
    LET ps  == CatalogPaths(cfg)
        bad == {i \in DOMAIN ps :
                  ps[i] \in osEnv.mkdirFail /\ Stat(fs, ps[i]).kind # "dir"}
    IN  IF bad = {} THEN 0 ELSE CHOOSE i \in bad : \A j \in bad : i <= j

\* the first manifest entry with a source whose destination the
\* environment refuses to open, 0 when there is none
FirstRefusedCopy ==
    LET bad == {i \in Staged :
                  (cfg.DataFolder \o ConfigFiles[i].Destination)
                     \in osEnv.openFail}
    IN  IF bad = {} THEN 0 ELSE CHOOSE i \in bad : \A j \in bad : i <= j

\* C17: a directory-creation failure in CreateDirectories and a byte-copy
\* failure in CopyConfigFiles are fatal: the operation stops at the first
\* failing catalog path or manifest entry, processes no later entry and
\* returns an error naming that catalog path or manifest source.
C17_CreateAndCopyFatal ==
    [][/\ (Ran("CreateDirectories") /\ FirstRefusedDir # 0)
            => StoppedAtDir(FirstRefusedDir)
       /\ (Ran("CopyConfigFiles") /\ FirstRefusedCopy # 0)
            => StoppedAtCopy(FirstRefusedCopy)]_vars

\* CreateDirectories stopped at the second media directory after all the
\* data directories, and CopyConfigFiles then stopped at the second
\* manifest entry after copying the first
C17_Witness ==
    /\ cmd = "stack" /\ ~flags.dryRun
    /\ Len(events) = 2
    /\ events[1].op = "CopyConfigFiles" /\ events[1].err
    /\ events[1].named = <<ConfigFiles[2].Source>>
    /\ events[2].op = "CreateDirectories" /\ events[2].err
    /\ events[2].named = MediaDirectories[2]
    /\ Len(acts) = Len(DataDirectories) + 2
    /\ Stat(fs, cfg.DataFolder \o ConfigFiles[1].Destination).content = "new"

\* this step is CreateDirectories called again, with dry-run disabled,
\* right after a CreateDirectories that returned success
SecondCreate ==
    /\ Ran("CreateDirectories")
    /\ events # <<>>
    /\ events[Len(events)].op = "CreateDirectories"
    /\ ~events[Len(events)].err

\* every catalog path is a directory with the setgid mode and the
\* configured owner
CatalogsProvisioned(f) ==
    LET ps == CatalogPaths(cfg)
    IN  \A i \in DOMAIN ps :
           /\ Stat(f, ps[i]).kind = "dir"
           /\ Stat(f, ps[i]).mode = "02775"
           /\ Stat(f, ps[i]).owner = OwnerOf(cfg)

\* C18: directory provisioning is idempotent: a second CreateDirectories
\* with the same inputs succeeds like the first, creates no new path and
\* leaves the existence, owner and mode of every catalog path as the first
\* run left them (the setgid mode and the configured owner where the
\* operating system refuses nothing).
C18_CreateDirectoriesIdempotent ==
    [][SecondCreate =>
         /\ result' = "ok"
         /\ DOMAIN fs' = DOMAIN fs
         /\ fs' = fs
         /\ osEnv = AllOk =>
              CatalogsProvisioned(fs) /\ CatalogsProvisioned(fs')]_vars

\* CreateDirectories ran twice on a host without the folders, both times
\* with success, and the catalogs are provisioned
C18_Witness ==
    /\ cmd = "stack" /\ ~flags.dryRun /\ osEnv = AllOk
    /\ Len(events) = 2
    /\ \A i \in 1..2 : events[i].op = "CreateDirectories" /\ ~events[i].err
    /\ ~Exists(fs, cfg.ConfigDir \o <<ConfigFiles[1].Source>>)
    /\ CatalogsProvisioned(fs)
    /\ Len(acts) = Len(CatalogNames)

----------------------------------------------------------------------------
(* Configuration loading: the root command's PersistentPreRunE and the     *)
(* definition path each command hands to the compose wrapper.  The config *)
(* directory is <<"cfg">>, so the variant directories lie at the root;    *)
(* flags has the extra field variant, the value of --variant ("" when not  *)
(* given).                                                                 *)

\* the directory names of the variants, in detectVariant's preference order
Variants == <<"full-download-vpn", "mini-download-vpn", "no-download-vpn">>

DefinitionFile(parentDir, v) == parentDir \o <<v, "docker-compose.yaml">>

\* detectVariant with the preference order reversed
detectVariantReversed(f, configDir) ==
    LET parentDir == Dir(configDir)
        found == {i \in DOMAIN Variants :
                    Exists(f, DefinitionFile(parentDir, Variants[i]))}
    IN  IF found = {} THEN "full-download-vpn"
        ELSE Variants[CHOOSE i \in found : \A j \in found : i >= j]

\* detectVariant: the first variant whose definition file os.Stat finds,
\* full-download-vpn when there is none
detectVariant(f, configDir) ==
    LET parentDir == Dir(configDir)
        found == {i \in DOMAIN Variants :
                    Exists(f, DefinitionFile(parentDir, Variants[i]))}
    IN  IF found = {} THEN "full-download-vpn"
        ELSE Variants[CHOOSE i \in found : \A j \in found : i <= j]

NormalizeVariant(v) ==
    CASE v = "full"   -> "full-download-vpn"
      [] v = "mini"   -> "mini-download-vpn"
      [] v = "no-vpn" -> "no-download-vpn"
      [] OTHER        -> v

\* Config.ComposeFile
ComposeFile(c) == DefinitionFile(Dir(c.ConfigDir), c.Variant)

\* the commands that build a compose wrapper from the loaded configuration
LoadCommands == {"deploy", "stop", "restart", "logs", "pull", "validate"}

\* the values of --variant
Overrides == {"", "full", "mini", "no-vpn"}

\* a host with the config directory and the definition files of the
\* variants of D
LoadFs(D) ==
    LET file == [kind |-> "file", mode |-> "0644", owner |-> "root",
                 content |-> "new"]
        dir  == [kind |-> "dir", mode |-> "0755", owner |-> "root",
                 content |-> ""]
        c    == ConfigDirFs(0)
    IN  [q \in DOMAIN c \cup {<<v>> : v \in D}
                        \cup {DefinitionFile(<<>>, v) : v \in D} |->
            IF q \in DOMAIN c THEN c[q]
            ELSE IF Len(q) = 1 THEN dir ELSE file]

\* the configuration before Load
NoConfig == [ConfigDir |-> <<>>, DataFolder |-> <<>>, MediaFolder |-> <<>>,
             PUID |-> "", ProjectName |-> "", Variant |-> ""]

LoadInit ==
    /\ cmd \in LoadCommands
    /\ \E S \in SUBSET {"verbose", "dryRun"}, v \in Overrides :
          flags = [variant |-> v] @@ FlagsWith(cmd, S)
    /\ fs \in {LoadFs(D) : D \in SUBSET {Variants[i] : i \in DOMAIN Variants}}
    /\ cfg = NoConfig
    /\ umask = "022" /\ osEnv = AllOk
    /\ pc = "prerun" /\ result = "none" /\ errOp = "none"
    /\ events = <<>> /\ acts = <<>> /\ report = <<>>
    /\ rt = EmptyRuntime /\ calls = <<>> /\ containers = <<>>
    /\ stopIdx = 1
    /\ verify = [listed |-> FALSE, running |-> 0, failed |-> 0]
    /\ args = <<>> /\ failures = 0
    /\ parser = NoParser

\* PersistentPreRunE: config.Load, which ends with detectVariant, then the
\* --variant override
LoadPreRun ==
    /\ pc = "prerun"
    /\ cfg' = LET c == [Variant |-> detectVariant(fs, <<"cfg">>)]
                       @@ Load(NoValue)
              IN  IF flags.variant # ""
                  THEN [c EXCEPT !.Variant = flags.variant] ELSE c
    /\ pc' = "loaded"
    /\ UNCHANGED <<cmd, flags, umask, result, errOp, events, fs, acts, report,
                   rt, calls, containers, stopIdx, verify, args, osEnv,
                   failures>>
    /\ UNCHANGED parser

\* the command builds its compose wrapper: runDeploy normalizes the
\* variant first, the other commands take it as loaded
LoadNewCompose ==
    /\ pc = "loaded"
    /\ cfg' = IF cmd = "deploy" /\ cfg.Variant # ""
              THEN [cfg EXCEPT !.Variant = NormalizeVariant(@)] ELSE cfg
    /\ calls' = Append(calls, Call("NewCompose", ComposeFile(cfg'),
                                   cfg.ProjectName, TRUE))
    /\ pc' = "resolved"
    /\ UNCHANGED <<cmd, flags, umask, result, errOp, events, fs, acts, report,
                   rt, containers, stopIdx, verify, args, osEnv, failures>>
    /\ UNCHANGED parser

LoadNext == LoadPreRun \/ LoadNewCompose

SpecLoad == LoadInit /\ [][LoadNext]_vars

\* the variants whose definition file exists, by preference rank
Defined == {i \in DOMAIN Variants :
              Exists(fs, DefinitionFile(<<>>, Variants[i]))}

\* the loader ran without --variant
LoadedUnset == pc \in {"loaded", "resolved"} /\ flags.variant = ""

\* C19 as stated: with no override, for every combination of definition
\* files the loader selects the first variant in the order full, mini,
\* no-vpn whose definition file exists, and never a variant whose
\* directory lacks a definition file.
C19_VariantFirstExisting ==
    LoadedUnset =>
      /\ Exists(fs, ComposeFile(cfg))
      /\ \E i \in Defined :
            cfg.Variant = Variants[i] /\ \A j \in Defined : i <= j

\* C19 amended: with no override, when at least one variant directory
\* holds a definition file the loader selects the first such variant in
\* the order full, mini, no-vpn, and so never one lacking the file; when
\* none holds one it selects full, whose definition file does not exist.
C19_VariantFirstExistingOrFull ==
    LoadedUnset =>
      IF Defined = {}
      THEN cfg.Variant = Variants[1] /\ ~Exists(fs, ComposeFile(cfg))
      ELSE /\ Exists(fs, ComposeFile(cfg))
           /\ \E i \in Defined :
                 cfg.Variant = Variants[i] /\ \A j \in Defined : i <= j

\* loaded without override on a host where full lacks its definition file
\* and mini and no-vpn have theirs: mini was selected
C19_Witness ==
    /\ LoadedUnset
    /\ Defined = {2, 3}
    /\ cfg.Variant = "mini-download-vpn"

-----------------------------------------------------------------------------
(* The container client: Client.ListContainers and Client.StopContainer
   called in any order on a host whose containers have any health state *)

\* the hosts the client may face
ClientRuntimes == RuntimesWith(InspectAnswers)

ClientInit ==
    /\ cmd = "client"
    /\ flags = FlagsWith("client", {})
    /\ cfg \in {Load(v) : v \in ProjectValues}
    /\ umask = "022"
    /\ fs = ConfigDirFs(0)
    /\ osEnv = AllOk
    /\ rt \in ClientRuntimes
    /\ pc = "idle" /\ result = "none" /\ errOp = "none"
    /\ events = <<>> /\ acts = <<>> /\ report = <<>>
    /\ calls = <<>> /\ containers = <<>>
    /\ stopIdx = 1
    /\ verify = [listed |-> FALSE, running |-> 0, failed |-> 0]
    /\ args = <<>> /\ failures = 0
    /\ parser = NoParser

\* the ContainerInspect requests ListContainers sends for the daemon's list
InspectCalls(cs) ==
    LET ins == Inspections(cs)
    IN  [i \in 1..Len(ins) |->
            Call("api inspect", <<ins[i].id>>, NoLabel,
                 ins[i].inspect # "error")]

\* Client.ListContainers(ctx, all): a failed ContainerList returns no list
\* and sends no inspect; otherwise one entry per listed container
ClientListContainers ==
    /\ cmd = "client" /\ Len(events) < MaxOps
    /\ \E all \in BOOLEAN, ok \in Outcomes :
          LET label == IF cfg.ProjectName # "" THEN cfg.ProjectName
                       ELSE NoLabel
              l     == IF ok THEN ListContainers(cfg.ProjectName, rt, all)
                       ELSE <<>>
              sent  == IF ok THEN InspectCalls(ContainerList(rt, all, label))
                       ELSE <<>>
          IN  /\ containers' = l
              /\ calls' = Append(calls, Call("api list", <<all>>, label, ok))
                            \o sent
              /\ events' = Append(events, [op |-> "ListContainers",
                                           arg |-> all, err |-> ~ok])
              /\ Failed(ok)
    /\ UNCHANGED <<cmd, flags, cfg, umask, pc, result, errOp, fs, acts,
                   report, rt, stopIdx, verify, args, osEnv>>
    /\ UNCHANGED parser

\* Client.StopContainer(ctx, id) on the identifier of a listed entry
ClientStopContainer ==
    /\ cmd = "client" /\ Len(events) < MaxOps
    /\ \E i \in DOMAIN containers, ok \in Outcomes :
          LET s == StopContainer(rt, containers[i].ID, ~ok)
          IN  /\ rt' = s.rt
              /\ calls' = Append(calls, Call("api stop", <<containers[i].ID>>,
                                             NoLabel, ~s.err))
              /\ events' = Append(events, [op |-> "StopContainer",
                                           arg |-> containers[i].ID,
                                           err |-> s.err])
              /\ Failed(ok)
    /\ UNCHANGED <<cmd, flags, cfg, umask, pc, result, errOp, fs, acts,
                   report, containers, stopIdx, verify, args, osEnv>>
    /\ UNCHANGED parser

ClientNext == ClientListContainers \/ ClientStopContainer

SpecClient == ClientInit /\ [][ClientNext]_vars

\* this step is a call of ListContainers that returned a list
Listed ==
    /\ cmd = "client"
    /\ Len(events') = Len(events) + 1
    /\ events'[Len(events')].op = "ListContainers"
    /\ ~events'[Len(events')].err

\* the requests this step sent to the daemon
Sent == SubSeq(calls', Len(calls) + 1, Len(calls'))

\* the container of the host an entry of the list stands for
Behind(info) == CHOOSE c \in rt.containers : c.id = info.Name

\* every entry that is not running has no health, and every inspect sent
\* was for a container the list reports running
HealthOnlyWhenRunning(list, sent) ==
    /\ \A i \in DOMAIN list :
          list[i].State # "running" => list[i].Health = ""
    /\ \A k \in DOMAIN sent :
          sent[k].op = "api inspect" =>
             \E i \in DOMAIN list : /\ list[i].Name = sent[k].arg[1]
                                    /\ list[i].State = "running"

\* C20: every entry ListContainers returns for a container that is not
\* running has an empty health, whatever health state the daemon holds for
\* it, and ListContainers inspects only containers the list reports running
C20_HealthOnlyWhenRunning ==
    [][Listed => HealthOnlyWhenRunning(containers', Sent)]_vars

\* a list holding a stopped container whose health state the daemon keeps,
\* returned without health, next to a running one returned with its health
C20_Witness ==
    /\ cmd = "client"
    /\ \E i, j \in DOMAIN containers :
          /\ containers[i].State = "exited"
          /\ Behind(containers[i]).state = "exited"
          /\ Behind(containers[i]).inspect \in {"healthy", "unhealthy"}
          /\ containers[i].Health = ""
          /\ containers[j].State = "running"
          /\ containers[j].Health # ""
    /\ \E k \in DOMAIN calls : calls[k].op = "api inspect"

-----------------------------------------------------------------------------
(* Claims about the options of deploy *)

\* the runtime invocations that prune
AnyPruneOps == {"api prune containers", "api prune volumes",
                "api prune networks", "api prune images"}

\* deploy was invoked with pull and pruning disabled
NoPullNoPrune == cmd = "deploy" /\ ~flags.pull /\ ~flags.prune

\* C21: a deploy with pull disabled and pruning disabled issues no pull and
\* no prune of any kind, and issues no stop when the list of project
\* containers is empty
C21_NoPullNoPrune ==
    NoPullNoPrune =>
       /\ \A i \in DOMAIN calls :
             calls[i].op \notin AnyPruneOps \cup {"compose pull"}
       /\ containers = <<>> => \A i \in DOMAIN calls : calls[i].op # "api stop"

\* the elements of an argument list
Elems(a) == {a[i] : i \in DOMAIN a}

\* C22: every bring-up of deploy starts the services detached, and its
\* invocation requests forced recreation of the containers exactly when
\* the force option is set
C22_ForceRecreates ==
    cmd = "deploy" =>
       \A i \in DOMAIN calls :
          calls[i].op = "compose up" =>
             /\ "-d" \in Elems(calls[i].arg)
             /\ flags.force <=> "--force-recreate" \in Elems(calls[i].arg)

-----------------------------------------------------------------------------
(* Claims about the loader *)

\* the definition path the command handed to NewCompose
ResolvedPath == calls[Len(calls)].arg

\* C23: for each override full, mini and no-vpn, every command that builds
\* a compose wrapper resolves the definition file of the directory of that
\* variant, so all commands resolve the same path
C23_PathDeterminedByVariant ==
    (cmd \in LoadCommands /\ pc = "resolved" /\ flags.variant # "") =>
       ResolvedPath = DefinitionFile(Dir(cfg.ConfigDir),
                                     NormalizeVariant(flags.variant))

-----------------------------------------------------------------------------
(* The environment file parser.                                            *)
(* A string is a sequence of symbols: the characters $ { } : - = # " '     *)
(* and the space, and one symbol per name or literal word.  A file is a    *)
(* sequence of lines, a line is a string.  The map of parsed keys and the  *)
(* process environment are functions from names (strings) to strings.      *)

\* the largest number of lines of an environment file
MaxLines == 2

\* strings.Index from position from on: the first position where pat
\* starts, 0 when there is none
IndexFrom(s, pat, from) ==
    LET hits == {i \in from..(Len(s) - Len(pat) + 1) :
                    SubSeq(s, i, i + Len(pat) - 1) = pat}
    IN  IF hits = {} THEN 0 ELSE CHOOSE i \in hits : \A j \in hits : i <= j

\* strings.TrimSpace
TrimSpace(s) ==
    LET solid == {i \in DOMAIN s : s[i] # " "}
    IN  IF solid = {} THEN <<>>
        ELSE SubSeq(s, CHOOSE i \in solid : \A j \in solid : i <= j,
                       CHOOSE i \in solid : \A j \in solid : i >= j)

\* trimQuotes
trimQuotes(s) ==
    IF Len(s) < 2 THEN s
    ELSE IF \/ s[1] = "\"" /\ s[Len(s)] = "\""
            \/ s[1] = "'" /\ s[Len(s)] = "'"
    THEN SubSeq(s, 2, Len(s) - 1)
    ELSE s

\* removeInlineComment: cut at the first # that follows a space
removeInlineComment(s) ==
    LET cuts == {i \in 2..Len(s) : s[i] = "#" /\ s[i - 1] = " "}
    IN  IF cuts = {} THEN s
        ELSE TrimSpace(SubSeq(s, 1, (CHOOSE i \in cuts :
                                        \A j \in cuts : i <= j) - 2))

\* the position of the first ${ of a string, 0 when there is none
RefStart(r) == IndexFrom(r, <<"$", "{">>, 1)

\* the position of the first } at or after the first ${, 0 when none
RefEnd(r) == IF RefStart(r) = 0 THEN 0 ELSE IndexFrom(r, <<"}">>, RefStart(r))

\* expandVariables, the loop condition: a ${ with a } after it
HasRef(r) == RefStart(r) # 0 /\ RefEnd(r) # 0

\* the lookup with the process environment consulted before the parsed keys
varValueEnvironFirst(name, env, environ) ==
    LET idx == IndexFrom(name, <<":", "-">>, 1)
    IN  IF idx # 0
        THEN LET v == SubSeq(name, 1, idx - 1)
                 d == SubSeq(name, idx + 2, Len(name))
             IN  IF v \in DOMAIN environ /\ environ[v] # <<>> THEN environ[v]
                 ELSE IF v \in DOMAIN env /\ env[v] # <<>> THEN env[v]
                 ELSE d
        ELSE IF name \in DOMAIN environ THEN environ[name]
        ELSE IF name \in DOMAIN env THEN env[name]
        ELSE <<>>

\* expandVariables, the value of one reference: name is the text between
\* ${ and }; with :- the parsed key when set and not empty, else the
\* default; without it the parsed key, else the process variable, else ""
varValue(name, env, environ) ==
    LET idx == IndexFrom(name, <<":", "-">>, 1)
    IN  IF idx # 0
        THEN LET v == SubSeq(name, 1, idx - 1)
                 d == SubSeq(name, idx + 2, Len(name))
             IN  IF v \in DOMAIN env /\ env[v] # <<>> THEN env[v] ELSE d
        ELSE IF name \in DOMAIN env THEN env[name]
        ELSE IF name \in DOMAIN environ THEN environ[name]
        ELSE <<>>

\* expandVariables, one iteration of the loop on a string that HasRef
Substitute(r, env, environ) ==
    LET start == RefStart(r)
        end   == RefEnd(r)
    IN  SubSeq(r, 1, start - 1)
          \o varValue(SubSeq(r, start + 2, end - 1), env, environ)
          \o SubSeq(r, end + 1, Len(r))

\* ParseEnvFile, whether a trimmed line is skipped: empty, a comment, or
\* without =
SkippedLine(l) == l = <<>> \/ l[1] = "#" \/ IndexFrom(l, <<"=">>, 1) = 0

\* ParseEnvFile, the key of a trimmed line
KeyOfLine(l) == TrimSpace(SubSeq(l, 1, IndexFrom(l, <<"=">>, 1) - 1))

\* ParseEnvFile, the text after the first = of a trimmed line
ValueOfLine(l) == TrimSpace(SubSeq(l, IndexFrom(l, <<"=">>, 1) + 1, Len(l)))

\* whether ParseEnvFile skips a line of the file, and the key it reads
Skipped(line) == \E l \in {TrimSpace(line)} : SkippedLine(l)

KeyOf(line) == KeyOfLine(TrimSpace(line))

\* the path of the environment file of a config directory
EnvPath(configDir) == configDir \o <<".env">>

\* ParseEnvFile: os.Open; a missing file is an error
ParseOpen ==
    /\ parser.phase = "idle"
    /\ cmd \in {"parse", "validate"} \cup Commands
    /\ LET e == Stat(fs, EnvPath(<<"cfg">>))
       IN  parser' = IF e.kind # "file"
                     THEN [parser EXCEPT !.phase = "failed"]
                     ELSE [parser EXCEPT !.phase = "scan",
                                         !.lines = e.content]
    /\ UNCHANGED <<cmd, flags, cfg, umask, pc, result, errOp, events, fs,
                   acts, report, rt, calls, containers, stopIdx, verify,
                   args, osEnv, failures>>

\* ParseEnvFile: the scanner reads the next line; a skipped line is passed
\* over, otherwise the key and the value are cut out, the value loses its
\* quotes and its inline comment and is handed to expandVariables
ParseScan ==
    /\ parser.phase = "scan" /\ parser.i < Len(parser.lines)
    /\ \E l \in {TrimSpace(parser.lines[parser.i + 1])} :
          IF SkippedLine(l)
          THEN parser' = [parser EXCEPT !.i = @ + 1]
          ELSE \E v \in {ValueOfLine(l)} :
               \E q \in {trimQuotes(v)} :
               \E c \in {removeInlineComment(q)} :
                  parser' = [parser EXCEPT !.phase = "expand",
                                           !.key = KeyOfLine(l),
                                           !.cur = c]
    /\ UNCHANGED <<cmd, flags, cfg, umask, pc, result, errOp, events, fs,
                   acts, report, rt, calls, containers, stopIdx, verify,
                   args, osEnv, failures>>

\* expandVariables: one iteration of its loop
ParseExpand ==
    /\ parser.phase = "expand" /\ HasRef(parser.cur)
    /\ parser' = [parser EXCEPT
                    !.cur = Substitute(@, parser.env, parser.environ)]
    /\ UNCHANGED <<cmd, flags, cfg, umask, pc, result, errOp, events, fs,
                   acts, report, rt, calls, containers, stopIdx, verify,
                   args, osEnv, failures>>

\* expandVariables returns and ParseEnvFile stores env[key] = value
ParseAssign ==
    /\ parser.phase = "expand" /\ ~HasRef(parser.cur)
    /\ parser' = [parser EXCEPT !.phase = "scan",
                                !.i = @ + 1,
                                !.env = (parser.key :> parser.cur) @@ @,
                                !.key = <<>>,
                                !.cur = <<>>]
    /\ UNCHANGED <<cmd, flags, cfg, umask, pc, result, errOp, events, fs,
                   acts, report, rt, calls, containers, stopIdx, verify,
                   args, osEnv, failures>>

\* ParseEnvFile returns the map at the end of the file
ParseReturn ==
    /\ parser.phase = "scan" /\ parser.i = Len(parser.lines)
    /\ parser' = [parser EXCEPT !.phase = "parsed"]
    /\ UNCHANGED <<cmd, flags, cfg, umask, pc, result, errOp, events, fs,
                   acts, report, rt, calls, containers, stopIdx, verify,
                   args, osEnv, failures>>

-----------------------------------------------------------------------------
(* ParseEnvFile on small files: lines over the keys A and B *)

\* ${name}
Ref(name) == <<"$", "{">> \o name \o <<"}">>

\* ${name:-default}
RefDefault(name, d) == <<"$", "{">> \o name \o <<":", "-">> \o d \o <<"}">>

\* key=value
Assign(k, v) == <<k, "=">> \o v

\* the lines a sample file is made of
SampleLines ==
    {Assign("A", <<"x">>),
     Assign("A", <<>>),
     Assign("B", <<"y">>),
     Assign("B", Ref(<<"A">>)),
     Assign("B", RefDefault(<<"A">>, <<"d">>)),
     Assign("A", Ref(<<"B">>)),
     Assign("A", RefDefault(<<"B">>, <<"d">>)),
     Assign("B", Ref(<<"B">>)),
     Assign("B", <<"\"">> \o Ref(<<"A">>) \o <<"\"">>),
     Assign("B", <<"x", " ", "#", "c">>),
     Assign("B", <<"$", "{", "A">>),
     Assign("B", RefDefault(<<"A">>, Ref(<<"B">>))),
     Assign("A", <<"z">> \o Ref(<<"B">>) \o Ref(<<"A">>)),
     <<" ", "A", " ", "=", " ", "x", " ">>,
     <<"#", "c">>,
     <<"A">>}

\* the environment files with at most MaxLines lines
SampleFiles == UNION {[1..n -> SampleLines] : n \in 0..MaxLines}

\* the process environments: nothing set, B set, B set to a reference to
\* itself, A and B set to references to each other
Environs ==
    {<<>>,
     (<<"B">> :> <<"o">>),
     (<<"B">> :> Ref(<<"B">>)),
     (<<"A">> :> Ref(<<"B">>)) @@ (<<"B">> :> Ref(<<"A">>))}

\* a config directory whose environment file holds the given lines
EnvFileFs(lines) ==
    LET c == ConfigDirFs(0)
    IN  [c EXCEPT ![EnvPath(<<"cfg">>)].content = lines]

\* a config directory without environment file
NoEnvFileFs ==
    LET c == ConfigDirFs(0)
    IN  [q \in DOMAIN c \ {EnvPath(<<"cfg">>)} |-> c[q]]

\* the parser before ParseEnvFile is called in a process with environment e
ParserIn(e) ==
    [phase |-> "idle", lines |-> <<>>, i |-> 0, env |-> <<>>, key |-> <<>>,
     cur |-> <<>>, environ |-> e]

ParseInit ==
    /\ cmd = "parse"
    /\ flags = FlagsWith("parse", {})
    /\ cfg = Load(NoValue)
    /\ umask = "022"
    /\ fs \in {EnvFileFs(l) : l \in SampleFiles} \cup {NoEnvFileFs}
    /\ osEnv = AllOk
    /\ pc = "idle" /\ result = "none" /\ errOp = "none"
    /\ events = <<>> /\ acts = <<>> /\ report = <<>>
    /\ rt = EmptyRuntime /\ calls = <<>> /\ containers = <<>>
    /\ stopIdx = 1
    /\ verify = [listed |-> FALSE, running |-> 0, failed |-> 0]
    /\ args = <<>> /\ failures = 0
    /\ parser \in {ParserIn(e) : e \in Environs}

ParseNext ==
    \/ ParseOpen
    \/ ParseScan
    \/ ParseExpand
    \/ ParseAssign
    \/ ParseReturn

SpecParse == ParseInit /\ [][ParseNext]_vars

\* expandVariables is not starved: the process keeps running
SpecParseFair == SpecParse /\ WF_vars(ParseNext)

\* the variable names the sample lines refer to
Names == {<<"A">>, <<"B">>}

\* the keys of the lines before line number n that are not skipped
KeysBefore(lines, n) ==
    {KeyOf(lines[j]) : j \in {k \in 1..(n - 1) : ~Skipped(lines[k])}}

\* the value a reference to v stands for, given the keys parsed so far: the
\* parsed key; when v is not among them (or, with a default, is empty) the
\* default literal if one is given, or else the process variable, or else ""
Expected(v, hasDefault, d, env, environ) ==
    IF v \in DOMAIN env /\ (hasDefault => env[v] # <<>>) THEN env[v]
    ELSE IF hasDefault THEN d
    ELSE IF v \in DOMAIN environ THEN environ[v]
    ELSE <<>>

\* this step is one substitution of expandVariables
Expands == parser.phase = "expand" /\ parser'.phase = "expand"

\* the text before the first reference of a string, and the text after it
TextBefore(r) == SubSeq(r, 1, RefStart(r) - 1)

TextAfter(r) == SubSeq(r, RefEnd(r) + 1, Len(r))

\* the first reference of the string being expanded is ${v}, or ${v:-d}
\* when hasDefault
FirstRefIs(v, hasDefault, d) ==
    /\ HasRef(parser.cur)
    /\ SubSeq(parser.cur, RefStart(parser.cur), RefEnd(parser.cur)) =
          IF hasDefault THEN RefDefault(v, d) ELSE Ref(v)

\* C26: every ${VAR} or ${VAR:-default} reference the parser substitutes
\* is resolved against the keys of the earlier lines only: the earlier
\* key, and when VAR is not among them the default literal if one is
\* given, or else the process variable; the keys known at a line are
\* exactly those of the lines before it, so a later line is never used
C26_ResolvedAgainstEarlierKeys ==
    [][\A v \in Names, hasDefault \in BOOLEAN :
          (Expands /\ FirstRefIs(v, hasDefault, <<"d">>)) =>
             /\ DOMAIN parser.env = KeysBefore(parser.lines, parser.i + 1)
             /\ parser'.cur =
                   TextBefore(parser.cur)
                     \o Expected(v, hasDefault, <<"d">>, parser.env,
                                 parser.environ)
                     \o TextAfter(parser.cur)]_vars

\* a file whose first line refers to B and whose second line defines B,
\* parsed in a process where B is set: the first line got the process
\* variable, not the later line
C26_Witness ==
    /\ cmd = "parse" /\ parser.phase = "parsed"
    /\ parser.lines = <<Assign("A", Ref(<<"B">>)), Assign("B", <<"y">>)>>
    /\ parser.environ = (<<"B">> :> <<"o">>)
    /\ parser.env[<<"A">>] = <<"o">>
    /\ parser.env[<<"B">>] = <<"y">>

\* ParseEnvFile has returned, with the map or with the error of os.Open
ParseDone == parser.phase \in {"parsed", "failed"}

\* C30: variable expansion terminates for every value, every map of parsed
\* keys and every process environment: every call of the parser returns
C30_ExpansionTerminates == <>ParseDone

-----------------------------------------------------------------------------
(* PersistentPreRunE on environment files that set, leave out or spoil the
   required settings, followed by the first operation of the command *)

\* the keys Load requires
Required == {<<"FOLDER_FOR_MEDIA">>, <<"FOLDER_FOR_DATA">>, <<"PUID">>,
             <<"PGID">>}

Digits == {"0", "1"}

\* strconv.Atoi succeeds: an optional sign and then one digit or more
AtoiOk(s) ==
    LET d == IF s # <<>> /\ s[1] \in {"+", "-"} THEN Tail(s) ELSE s
    IN  d # <<>> /\ \A i \in DOMAIN d : d[i] \in Digits

\* Load after ParseEnvFile: [err, cfg]; every required key must be in the
\* map and PUID and PGID must be numbers; a folder is the path its value
\* spells
LoadEnv(env, f, configDir) ==
    IF \E k \in Required : k \notin DOMAIN env
    THEN [err |-> TRUE, cfg |-> NoConfig]
    ELSE IF ~AtoiOk(env[<<"PUID">>]) \/ ~AtoiOk(env[<<"PGID">>])
    THEN [err |-> TRUE, cfg |-> NoConfig]
    ELSE [err |-> FALSE,
          cfg |-> [Variant |-> detectVariant(f, configDir), Env |-> env] @@
                  [Load(NoValue) EXCEPT
                     !.MediaFolder = env[<<"FOLDER_FOR_MEDIA">>],
                     !.DataFolder = env[<<"FOLDER_FOR_DATA">>]]]

\* the lines a file may hold for a key: none, an empty value, or one of vs
LinesFor(k, vs) == {<<>>, <<Assign(k, <<>>)>>} \cup {<<Assign(k, v)>> : v \in vs}

\* the environment files: each required key absent, empty or set
SettingFiles ==
    {m \o d \o u \o g :
        m \in LinesFor("FOLDER_FOR_MEDIA", {<<"media">>}),
        d \in LinesFor("FOLDER_FOR_DATA", {<<"data">>}),
        u \in LinesFor("PUID", {<<"1", "0">>, <<"abc">>}),
        g \in LinesFor("PGID", {<<"1", "0">>, <<"abc">>, Ref(<<"PUID">>)})}

SettingsInit ==
    /\ cmd \in Commands
    /\ \E S \in SUBSET {"dryRun"} :
          flags = [variant |-> ""] @@ FlagsWith(cmd, S)
    /\ args = <<>>
    /\ cfg = NoConfig
    /\ umask = "022"
    /\ fs \in {EnvFileFs(l) : l \in SettingFiles} \cup {NoEnvFileFs}
    /\ osEnv = AllOk
    /\ rt = EmptyRuntime
    /\ pc = "prerun" /\ result = "none" /\ errOp = "none"
    /\ events = <<>> /\ acts = <<>> /\ report = <<>>
    /\ calls = <<>> /\ containers = <<>>
    /\ stopIdx = 1
    /\ verify = [listed |-> FALSE, running |-> 0, failed |-> 0]
    /\ failures = 0
    /\ parser = ParserIn(<<>>)

\* PersistentPreRunE once ParseEnvFile has returned: the error of Load ends
\* the command, otherwise the handler of the command runs
SettingsPreRun ==
    /\ pc = "prerun" /\ parser.phase \in {"parsed", "failed"}
    /\ \E l \in {IF parser.phase = "failed"
                 THEN [err |-> TRUE, cfg |-> NoConfig]
                 ELSE LoadEnv(parser.env, fs, <<"cfg">>)} :
          IF l.err
          THEN /\ pc' = "done" /\ result' = "err" /\ errOp' = "load"
               /\ cfg' = cfg
          ELSE /\ pc' = "start" /\ result' = result /\ errOp' = errOp
               /\ cfg' = IF flags.variant # ""
                         THEN [l.cfg EXCEPT !.Variant = flags.variant]
                         ELSE l.cfg
    /\ UNCHANGED <<cmd, flags, umask, events, fs, acts, report, rt, calls,
                   containers, stopIdx, verify, args, osEnv, failures,
                   parser>>

SettingsNext ==
    \/ ParseOpen
    \/ ParseScan
    \/ ParseExpand
    \/ ParseAssign
    \/ ParseReturn
    \/ SettingsPreRun
    \/ DeployStep1
    \/ CmdBegin
    \/ CmdDown
    \/ RestartAll
    \/ CmdPull

SpecSettings == SettingsInit /\ [][SettingsNext]_vars

\* the file left a required setting out, or gave it an empty value, or
\* gave a uid or gid that is not a number
InvalidSettings ==
    /\ parser.phase = "parsed"
    /\ \E k \in Required :
          \/ k \notin DOMAIN parser.env
          \/ parser.env[k] = <<>>
          \/ k \in {<<"PUID">>, <<"PGID">>} /\ ~AtoiOk(parser.env[k])

\* no handler has started: nothing provisioned, reported or invoked
NothingStarted ==
    /\ pc \in {"prerun", "done"}
    /\ pc = "done" => result = "err"
    /\ events = <<>> /\ acts = <<>> /\ report = <<>> /\ calls = <<>>

\* C24: when a required setting (data root, media root, uid, gid) is
\* absent, empty or, for uid and gid, not a number, the command returns an
\* error and starts no provisioner or runtime operation
C24_InvalidSettingsPreempt == InvalidSettings => NothingStarted

-----------------------------------------------------------------------------
(* Claims about stop and restart with service names *)

\* the per-service invocations of the command, in order
ServiceCalls ==
    LET perService(c) == c.op = "compose " \o cmd /\ Len(c.arg) = 2
    IN  SelectSeq(calls, perService)

\* stop or restart, given several service names, has ended after reaching
\* its loop
ServicesDone ==
    /\ cmd \in {"stop", "restart"} /\ Len(args) > 1
    /\ ~flags.dryRun /\ pc = "done"
    /\ ~FailedCall("compose pull")

\* C25: in stop and restart given several services a failing call for one
\* service is a warning: the call for every service named is made, in
\* order, and the command does not return that failure
C25_ServiceFailureIsWarning ==
    ServicesDone =>
       /\ Len(ServiceCalls) = Len(args)
       /\ \A i \in DOMAIN ServiceCalls : ServiceCalls[i].arg[2] = args[i]
       /\ errOp # "service"

-----------------------------------------------------------------------------
(* The validate command: PersistentPreRunE, then the seven checks of
   runValidate and its summary.  verify holds hasWarnings and hasErrors;
   events holds what each check reported. *)

\* Config.Validate: the errors it returns
ConfigValidate(c, f) ==
    (IF c.MediaFolder = <<>> THEN {"media"} ELSE {}) \cup
    (IF c.DataFolder = <<>> THEN {"data"} ELSE {}) \cup
    (IF ~Exists(f, ComposeFile(c)) THEN {"compose file"} ELSE {}) \cup
    (IF c.Variant \notin {Variants[i] : i \in DOMAIN Variants}
                         \cup {"full", "mini", "no-vpn"}
     THEN {"variant"} ELSE {})

\* VerifyConfigFiles: the manifest sources missing from the config directory
VerifyConfigFiles(f, configDir) ==
    {i \in DOMAIN ConfigFiles : ~Exists(f, configDir \o <<ConfigFiles[i].Source>>)}

\* VerifyDirectories: the catalog directories that do not exist
VerifyDirectories(f, dataFolder, mediaFolder) ==
    {q \in {dataFolder \o DataDirectories[i] : i \in DOMAIN DataDirectories}
            \cup {mediaFolder \o MediaDirectories[i] :
                                        i \in DOMAIN MediaDirectories} :
        ~Exists(f, q)}

\* ValidateRequiredVars: the keys that are absent or empty
ValidateRequiredVars(env, required) ==
    {k \in required : k \notin DOMAIN env \/ env[k] = <<>>}

\* runValidate: the required and the recommended variables of check 7
RequiredVars == Required \cup {<<"TIMEZONE">>}

RecommendedVars == {<<"CLOUDFLARE_ZONE">>, <<"CLOUDFLARE_EMAIL">>}

\* the summary that ignores strict mode
ValidateResultLenient(hasErrors, hasWarnings, strict) ==
    IF hasErrors THEN "err" ELSE "ok"

\* runValidate, the summary: an error when a check found an error, or a
\* warning in strict mode
ValidateResult(hasErrors, hasWarnings, strict) ==
    IF hasErrors THEN "err"
    ELSE IF hasWarnings /\ strict THEN "err"
    ELSE "ok"

\* the lines of the optional settings: all absent or all set
OptionalLines(ks) == {<<>>, [i \in 1..Len(ks) |-> Assign(ks[i], <<"x">>)]}

\* the environment files validate is run on
ValidateFiles ==
    {<<Assign("FOLDER_FOR_MEDIA", <<"media">>)>> \o d
       \o <<Assign("PUID", <<"1", "0">>), Assign("PGID", Ref(<<"PUID">>))>>
       \o t \o c :
        d \in {<<Assign("FOLDER_FOR_DATA", v)>> : v \in {<<>>, <<"data">>}},
        t \in OptionalLines(<<"TIMEZONE">>),
        c \in OptionalLines(<<"CLOUDFLARE_ZONE", "CLOUDFLARE_EMAIL">>)}

\* the hosts validate is run on: the definition files of D, the first k
\* manifest sources, the catalogs provisioned or not, the file of lines
ValidateFs(D, k, provisioned, lines) ==
    LET c == IF provisioned THEN Provisioned(ConfigDirFs(k), "022")
             ELSE ConfigDirFs(k)
        f == c @@ LoadFs(D)
    IN  [f EXCEPT ![EnvPath(<<"cfg">>)].content = lines]

ValidateInit ==
    /\ cmd = "validate"
    /\ \E strict \in BOOLEAN, v \in {"", "mini"} :
          flags = [variant |-> v, strict |-> strict] @@ FlagsWith("validate", {})
    /\ args = <<>>
    /\ cfg = NoConfig
    /\ umask = "022"
    /\ fs \in {ValidateFs(D, k, p, l) :
                 D \in {{}, {Variants[1]}, {Variants[2], Variants[3]}},
                 k \in {0, Len(ConfigFiles)},
                 p \in BOOLEAN,
                 l \in ValidateFiles}
    /\ osEnv = AllOk
    /\ rt = EmptyRuntime
    /\ pc = "prerun" /\ result = "none" /\ errOp = "none"
    /\ events = <<>> /\ acts = <<>> /\ report = <<>>
    /\ calls = <<>> /\ containers = <<>>
    /\ stopIdx = 1
    /\ verify = [hasWarnings |-> FALSE, hasErrors |-> FALSE]
    /\ failures = 0
    /\ parser = ParserIn(<<>>)

\* what a check reports and what it does to hasErrors and hasWarnings
Report(n, errors, warnings) ==
    /\ events' = events
                   \o (IF errors THEN <<Ev(n, "error")>> ELSE <<>>)
                   \o (IF warnings THEN <<Ev(n, "warning")>> ELSE <<>>)
                   \o (IF ~errors /\ ~warnings THEN <<Ev(n, "ok")>> ELSE <<>>)
    /\ verify' = [hasWarnings |-> verify.hasWarnings \/ warnings,
                  hasErrors   |-> verify.hasErrors \/ errors]

\* check 1: cfg.Validate
ValidateConfig ==
    /\ cmd = "validate" /\ pc = "start"
    /\ Report(1, ConfigValidate(cfg, fs) # {}, FALSE)
    /\ pc' = "daemon"
    /\ UNCHANGED <<cmd, flags, cfg, umask, result, errOp, fs, acts, report,
                   rt, calls, containers, stopIdx, args, osEnv, failures,
                   parser>>

\* check 2: docker.CheckDockerRunning
ValidateDaemon ==
    /\ cmd = "validate" /\ pc = "daemon"
    /\ \E ok \in BOOLEAN :
          /\ calls' = Append(calls, Call("api ping", <<>>, NoLabel, ok))
          /\ Report(2, ~ok, FALSE)
    /\ pc' = "compose"
    /\ UNCHANGED <<cmd, flags, cfg, umask, result, errOp, fs, acts, report,
                   rt, containers, stopIdx, args, osEnv, failures, parser>>

\* check 3: docker.CheckComposeInstalled
ValidateCompose ==
    /\ cmd = "validate" /\ pc = "compose"
    /\ \E ok \in BOOLEAN :
          /\ calls' = Append(calls, Call("compose version",
                                         <<"compose", "version">>, NoLabel, ok))
          /\ Report(3, ~ok, FALSE)
    /\ pc' = "definition"
    /\ UNCHANGED <<cmd, flags, cfg, umask, result, errOp, fs, acts, report,
                   rt, containers, stopIdx, args, osEnv, failures, parser>>

\* check 4: compose.Config, and compose.ConfigServices when it succeeded;
\* a definition file that does not exist cannot validate
ValidateDefinition ==
    /\ cmd = "validate" /\ pc = "definition"
    /\ \E ok \in IF Exists(fs, ComposeFile(cfg)) THEN BOOLEAN ELSE {FALSE},
          listed \in BOOLEAN :
          /\ calls' = Append(calls, Call("compose config",
                                         <<"config", "--quiet">>,
                                         cfg.ProjectName, ok))
                        \o (IF ok
                            THEN <<Call("compose config --services",
                                        <<"config", "--services">>,
                                        cfg.ProjectName, listed)>>
                            ELSE <<>>)
          /\ Report(4, ~ok, FALSE)
    /\ pc' = "files"
    /\ UNCHANGED <<cmd, flags, cfg, umask, result, errOp, fs, acts, report,
                   rt, containers, stopIdx, args, osEnv, failures, parser>>

\* check 5: stack.VerifyConfigFiles
ValidateConfigFiles ==
    /\ cmd = "validate" /\ pc = "files"
    /\ Report(5, FALSE, VerifyConfigFiles(fs, cfg.ConfigDir) # {})
    /\ pc' = "directories"
    /\ UNCHANGED <<cmd, flags, cfg, umask, result, errOp, fs, acts, report,
                   rt, calls, containers, stopIdx, args, osEnv, failures,
                   parser>>

\* check 6: stack.VerifyDirectories
ValidateDirectories ==
    /\ cmd = "validate" /\ pc = "directories"
    /\ Report(6, FALSE,
              VerifyDirectories(fs, cfg.DataFolder, cfg.MediaFolder) # {})
    /\ pc' = "variables"
    /\ UNCHANGED <<cmd, flags, cfg, umask, result, errOp, fs, acts, report,
                   rt, calls, containers, stopIdx, args, osEnv, failures,
                   parser>>

\* check 7: config.ValidateRequiredVars on the required and on the
\* recommended variables
ValidateVariables ==
    /\ cmd = "validate" /\ pc = "variables"
    /\ Report(7, ValidateRequiredVars(cfg.Env, RequiredVars) # {},
              ValidateRequiredVars(cfg.Env, RecommendedVars) # {})
    /\ pc' = "summary"
    /\ UNCHANGED <<cmd, flags, cfg, umask, result, errOp, fs, acts, report,
                   rt, calls, containers, stopIdx, args, osEnv, failures,
                   parser>>

\* the summary and the return of runValidate
ValidateSummary ==
    /\ cmd = "validate" /\ pc = "summary"
    /\ result' = ValidateResult(verify.hasErrors, verify.hasWarnings,
                                flags.strict)
    /\ errOp' = IF result' = "err" THEN "validate" ELSE errOp
    /\ pc' = "done"
    /\ UNCHANGED <<cmd, flags, cfg, umask, events, fs, acts, report, rt,
                   calls, containers, stopIdx, verify, args, osEnv, failures,
                   parser>>

ValidateNext ==
    \/ ParseOpen
    \/ ParseScan
    \/ ParseExpand
    \/ ParseAssign
    \/ ParseReturn
    \/ SettingsPreRun
    \/ ValidateConfig
    \/ ValidateDaemon
    \/ ValidateCompose
    \/ ValidateDefinition
    \/ ValidateConfigFiles
    \/ ValidateDirectories
    \/ ValidateVariables
    \/ ValidateSummary

SpecValidate == ValidateInit /\ [][ValidateNext]_vars

\* the checks that reported an ev
Reporting(ev) == {events[i].ph : i \in {k \in DOMAIN events : events[k].ev = ev}}

\* runValidate has returned
Validated == cmd = "validate" /\ pc = "done" /\ errOp # "load"

\* every check has reported, and the return is an error exactly when a
\* check reported an error, or strict mode is set and one reported a warning
ValidateVerdict ==
    Validated =>
       /\ {events[i].ph : i \in DOMAIN events} = 1..7
       /\ result = "err" <=>
             \/ Reporting("error") # {}
             \/ flags.strict /\ Reporting("warning") # {}

\* a step of validate changes neither the filesystem nor the runtime
ValidateReadOnly == cmd = "validate" => fs' = fs /\ rt' = rt

\* C27: validate runs all seven checks whatever the earlier ones found,
\* returns an error if and only if a check reported an error or strict mode
\* is set and a check reported a warning, and mutates nothing
C27_ValidateRunsAllChecks == []ValidateVerdict /\ [][ValidateReadOnly]_vars

\* validate returned nil although the first check reported an error would
\* be wrong; here the first check found errors, the later checks still ran,
\* warnings were found too, and the command returned an error
C27_Witness ==
    /\ Validated
    /\ 1 \in Reporting("error")
    /\ {5, 6, 7} \subseteq Reporting("warning")
    /\ 2 \in Reporting("ok")
    /\ result = "err"

-----------------------------------------------------------------------------
(* The deploy entry points: the deploy command (runDeploy) and /deploy of
   the interactive shell (Shell.cmdDeploy).  runShell hands the loaded
   configuration to shell.New; the global flags stay in package cli. *)

\* Shell.cmdDeploy: --pull or -p among the arguments of /deploy
ShellPull(a) == \E i \in DOMAIN a : a[i] \in {"--pull", "-p"}

\* the position after a call of Shell.cmdDeploy: an error is returned
ShellFinish(op, ok, next) ==
    /\ pc' = IF ok THEN next ELSE "done"
    /\ result' = IF ~ok THEN "err" ELSE IF next = "done" THEN "ok" ELSE "none"
    /\ errOp' = IF ok THEN errOp ELSE op

ShellInit ==
    /\ cmd \in {"deploy", "shell"}
    /\ \E S \in SUBSET {"dryRun", "pull"} :
          /\ cmd = "shell" => "pull" \notin S
          /\ flags = FlagsWith(cmd, S)
    /\ args \in IF cmd = "deploy" THEN {<<>>}
                ELSE {<<>>, <<"--pull">>, <<"-p">>}
    /\ \E h \in FsHosts \cup RtHosts :
          /\ fs = h.fs
          /\ umask = h.umask
          /\ osEnv = h.osEnv
          /\ rt = h.rt
          /\ cfg \in {Load(v) : v \in IF h.rt = EmptyRuntime
                                      THEN {NoValue} ELSE ProjectValues}
    /\ pc = "start"
    /\ result = "none"
    /\ errOp = "none"
    /\ events = <<>>
    /\ acts = <<>>
    /\ report = <<>>
    /\ calls = <<>>
    /\ containers = <<>>
    /\ stopIdx = 1
    /\ verify = [listed |-> FALSE, running |-> 0, failed |-> 0]
    /\ failures = 0
    /\ parser = NoParser

\* Shell.cmdDeploy: stack.CreateDirectories(..., false, false)
ShellDeployDirs ==
    /\ cmd = "shell" /\ pc = "start"
    /\ LET r == CreateDirectories(St, cfg, umask, FALSE, FALSE, osEnv)
       IN  /\ fs' = r.fs /\ acts' = r.acts /\ report' = r.report
           /\ ShellFinish("createDirs", ~r.err, "shellFiles")
    /\ UNCHANGED <<cmd, flags, cfg, umask, events, rt, calls, containers,
                   stopIdx, verify, args, osEnv, failures, parser>>

\* Shell.cmdDeploy: stack.CopyConfigFiles(..., false, false)
ShellDeployFiles ==
    /\ cmd = "shell" /\ pc = "shellFiles"
    /\ LET r == CopyConfigFiles(St, cfg, umask, FALSE, FALSE, osEnv)
       IN  /\ fs' = r.fs /\ acts' = r.acts /\ report' = r.report
           /\ ShellFinish("copyFiles", ~r.err, "shellPull")
    /\ UNCHANGED <<cmd, flags, cfg, umask, events, rt, calls, containers,
                   stopIdx, verify, args, osEnv, failures, parser>>

\* Shell.cmdDeploy: compose.Pull when --pull or -p was given
ShellDeployPull ==
    /\ cmd = "shell" /\ pc = "shellPull"
    /\ IF ShellPull(args)
       THEN \E ok \in Outcomes :
              /\ calls' = Append(calls, Call("compose pull", <<"pull">>,
                                             cfg.ProjectName, ok))
              /\ rt' = IF ok THEN ComposePull(rt, cfg.ProjectName) ELSE rt
              /\ Failed(ok)
              /\ ShellFinish("pull", ok, "shellUp")
       ELSE /\ ShellFinish("pull", TRUE, "shellUp")
            /\ UNCHANGED <<rt, calls, failures>>
    /\ UNCHANGED <<cmd, flags, cfg, umask, events, fs, acts, report,
                   containers, stopIdx, verify, args, osEnv, parser>>

\* Shell.cmdDeploy: compose.Up(ctx, true, false)
ShellDeployUp ==
    /\ cmd = "shell" /\ pc = "shellUp"
    /\ \E ok \in Outcomes :
          /\ rt' = IF ok THEN ComposeUp(rt, cfg.ProjectName) ELSE rt
          /\ calls' = Append(calls, Call("compose up", UpArgs(TRUE, FALSE),
                                         cfg.ProjectName, ok))
          /\ Failed(ok)
          /\ ShellFinish("up", ok, "done")
    /\ UNCHANGED <<cmd, flags, cfg, umask, events, fs, acts, report,
                   containers, stopIdx, verify, args, osEnv, parser>>

ShellNext ==
    \/ DeployStep1
    \/ DeployStep2
    \/ DeployStep3
    \/ DeployDryRunGate
    \/ DeployStep4
    \/ DeployStep5
    \/ DeployNewClient
    \/ DeployList
    \/ DeployStop
    \/ DeployPruneContainers
    \/ DeployPruneVolumes
    \/ DeployPruneNetworks
    \/ DeployStep7
    \/ DeployStep8
    \/ DeployStep9
    \/ ShellDeployDirs
    \/ ShellDeployFiles
    \/ ShellDeployPull
    \/ ShellDeployUp

SpecShell == ShellInit /\ [][ShellNext]_vars

\* every bring-up comes after a definition validation that succeeded
UpValidated ==
    \A i \in DOMAIN calls :
       calls[i].op = "compose up" =>
          \E j \in 1..(i - 1) : calls[j].op = "compose config" /\ calls[j].ok

\* C28: in both deploy entry points, the deploy command and /deploy of the
\* shell, compose up is invoked only after compose config has succeeded
\* earlier in the same run.
C28_UpOnlyAfterValidation == cmd \in {"deploy", "shell"} => UpValidated

\* C29: when the process was started with --dry-run, a step of /deploy in
\* the shell changes no file and makes no runtime invocation.
C29_ShellDryRun ==
    [][(cmd = "shell" /\ flags.dryRun)
          => fs' = fs /\ rt' = rt /\ calls' = calls]_vars

====
